---------------------------- MODULE Spec2Model ----------------------------
(***************************************************************************)
(* TcContext: a client-side mirror of a TwinCAT controller.                *)
(*                                                                         *)
(* The module holds one state machine per component of the library, each   *)
(* with its own specification over the shared variables:                   *)
(*   SpecSplit  TcCom.read / TcCom.write and the 500-item request split    *)
(*   SpecNs     TcNamespaceBinding.__addChild (namespace pointer growth)   *)
(*   SpecTypes  TcTypeRegistry.create over a raw type catalogue            *)
(*   SpecNumeric  TcTypeRegistry.create on a catalogue of numeric types     *)
(*   SpecExtend  TcNumericType.extend with raw descriptors of every shape   *)
(*   SpecClone  clone and extend on type objects held by address            *)
(*   SpecNames  TcSymbolRegistry.create over raw symbols of every name       *)
(*   SpecRebuild source changes in a row, no transport call rejected (fair) *)
(*   SpecSymbols  $get / $set / $clear on the symbols of a namespace       *)
(*   SpecArray  $get / $set / $clear on arrays of any start index           *)
(*   SpecShape  $set with values of any shape, on writable and read-only    *)
(*              symbols                                                     *)
(*   SpecLeaf   $get / $set / $clear on one leaf with its attributes        *)
(*   SpecEnum   $get / $set / $clear on an enum leaf                        *)
(*   SpecIgnore  symbols and members declared 'Ignore' or 'Ignored'         *)
(*   SpecGrid   the symbols of arrays of one and two dimensions             *)
(*   SpecOverlap  overlapping runs of TcContext.reinitialize                *)
(*   SpecFlight  read / write / clear in flight while kill() invalidates    *)
(*   SpecOrder  $set with the keys of the value in any order                *)
(*   SpecInvalidate  TcSymbol.invalidate and $onInvalidated                *)
(*   SpecEvents  listeners, stopPropagation and the emitter chain          *)
(*   SpecSub    $subscribe / $unsubscribe calls overlapping on one binding  *)
(*   SpecPublic  the same with method calls on the binding                  *)
(*   SpecCtx    TcContext: source change, kill and reinitialize             *)
(*   SpecKill   the same with kill() called by the user                     *)
(* A component's specification keeps the other components' variables at    *)
(* their idle value.                                                       *)
(***************************************************************************)
EXTENDS Integers, Sequences, FiniteSets, TLC

VARIABLES
    com,    \* TcCom.read / TcCom.write call in progress and the transport log
    ns,     \* TcNamespaceBinding: pointer and attached children
    reg,    \* TcTypeRegistry: the raw catalogue, the type map and the pending calls
    sym,    \* the symbols of a namespace, the controller memory and the last call
    sub,    \* one binding's subscription, the transport's handles, calls in flight
    ctx     \* TcContext: transport client, registries, handles and reinitialize runs

vars == <<com, ns, reg, sym, sub, ctx>>

-----------------------------------------------------------------------------
(* Helpers for JavaScript arrays, which are zero-based.                    *)

\* Array.prototype.slice(start, end) on a sequence
Slice(s, start, end) == SubSeq(s, start + 1, end)

RECURSIVE Flatten(_)
\* result.push(...x) for every x of a list of lists
Flatten(ss) == IF ss = <<>> THEN <<>> ELSE Head(ss) \o Flatten(Tail(ss))

Min(S) == CHOOSE x \in S : \A y \in S : x <= y
Max(S) == CHOOSE x \in S : \A y \in S : x >= y

\* ceil(m / n) for m >= 0, n > 0
CeilDiv(m, n) == (m + n - 1) \div n

-----------------------------------------------------------------------------
(* TcCom.read / TcCom.write: request splitting  (tc-com.ts)                *)

\* The ADS limit of items per multi-read / multi-write
SplitCap == 500

\* Largest number of items handed to one TcCom.read / TcCom.write
MaxItems == 1001

RECURSIVE SplitLoop(_, _, _, _)
\* The do { ... } while (startIndex < data.length) loop of __splitData
SplitLoop(data, startIndex, endIndex, result) ==
    LET e1 == endIndex + SplitCap
        e2 == IF e1 > Len(data) THEN Len(data) ELSE e1
        r  == Append(result, Slice(data, startIndex, e2))
    IN  IF e2 < Len(data) THEN SplitLoop(data, e2, e2, r) ELSE r

\* TcCom.__splitData
SplitData(data) == SplitLoop(data, 0, 0, <<>>)

\* The items of a request: item i stands for the i-th pointer / data package
Items(m) == [i \in 1..m |-> i]

\* What ads.readRawMulti answers for one pointer
Response(item) == <<item>>

ComIdle == [pc |-> "idle", op |-> "none", data |-> <<>>, split |-> <<>>, i |-> 0,
            calls |-> <<>>, result |-> <<>>, ads |-> TRUE]

\* TcCom.write / TcCom.read up to the first await: the __ads check and the split
ComCall(op, m) ==
    /\ com.pc = "idle"
    /\ IF com.ads
       THEN com' = [com EXCEPT !.pc = "loop", !.op = op, !.data = Items(m),
                               !.split = SplitData(Items(m)), !.i = 0,
                               !.calls = <<>>, !.result = <<>>]
       ELSE com' = [com EXCEPT !.pc = "failed", !.op = op, !.data = Items(m),
                               !.split = <<>>, !.i = 0, !.calls = <<>>, !.result = <<>>]
    /\ UNCHANGED <<ns, reg, sym, sub, ctx>>

ComWrite == \E m \in 0..MaxItems : ComCall("write", m)

ComRead == \E m \in 0..MaxItems : ComCall("read", m)

\* One iteration of the for loop: the awaited ads.writeRawMulti / ads.readRawMulti
\* call resolves
ComTransportCall ==
    /\ com.pc = "loop"
    /\ com.i < Len(com.split)
    /\ LET chunk == com.split[com.i + 1]
           resp  == [k \in 1..Len(chunk) |-> Response(chunk[k])]
       IN  com' = [com EXCEPT !.calls = Append(@, chunk),
                              !.result = IF com.op = "read" THEN @ \o resp ELSE @,
                              !.i = @ + 1,
                              !.pc = IF com.i + 1 < Len(com.split) THEN "loop" ELSE "done"]
    /\ UNCHANGED <<ns, reg, sym, sub, ctx>>

\* The awaited transport call rejects: TcComDataWriteException / TcComDataReadException
ComTransportFail ==
    /\ com.pc = "loop"
    /\ com.i < Len(com.split)
    /\ com' = [com EXCEPT !.calls = Append(@, com.split[com.i + 1]), !.pc = "failed"]
    /\ UNCHANGED <<ns, reg, sym, sub, ctx>>

\* TcCom.disconnect / TcCom.initialize as far as the __ads check sees them
ComToggleAds ==
    /\ com.pc = "idle"
    /\ com' = [com EXCEPT !.ads = ~@]
    /\ UNCHANGED <<ns, reg, sym, sub, ctx>>

\* The caller takes the result (or the exception) of the finished call
ComReturn ==
    /\ com.pc \in {"done", "failed"}
    /\ com' = [ComIdle EXCEPT !.ads = com.ads]
    /\ UNCHANGED <<ns, reg, sym, sub, ctx>>

\* C8: every finished TcCom.read / TcCom.write of m items (any m >= 0) reached the
\* transport as exactly ceil(m / 500) calls of at most 500 items each, in order,
\* whose concatenation is the m-item list; a read returns the answers in that order.
C8_SplitCalls ==
    com.pc = "done" =>
        /\ Len(com.calls) = CeilDiv(Len(com.data), SplitCap)
        /\ \A k \in 1..Len(com.calls) : Len(com.calls[k]) <= SplitCap
        /\ Flatten(com.calls) = com.data
        /\ com.op = "read" =>
               com.result = [k \in 1..Len(com.data) |-> Response(com.data[k])]

\* The case C8 fails on: a finished call of zero items
C8_EmptyCallDone == com.pc = "done" /\ com.data = <<>>


-----------------------------------------------------------------------------
(* TcNamespaceBinding.__addChild  (tc-binding.ts)                          *)

\* Bounds of the child pointers attached to a namespace
MaxNsOffset == 3
MaxNsSize == 2
MaxNsChildren == 3
NsGroups == {1, 2}

NsChildPointers ==
    [indexGroup : NsGroups, indexOffset : 0..MaxNsOffset, size : 1..MaxNsSize]

NsIdle == [indexGroup |-> 0, indexOffset |-> 0, size |-> 0, children |-> <<>>,
           threw |-> FALSE, map |-> <<>>, create |-> [pc |-> "idle", symbols |-> <<>>]]

\* The index group part of __addChild: first child sets it, a different one throws
NsGroupStep(b, child) ==
    IF b.indexGroup = 0 THEN [b EXCEPT !.indexGroup = child.indexGroup]
    ELSE IF b.indexGroup # child.indexGroup THEN [b EXCEPT !.threw = TRUE]
    ELSE b

\* The offset / size part of __addChild
NsRangeStep(b, child) ==
    IF b.indexOffset = 0
    THEN [b EXCEPT !.indexOffset = child.indexOffset, !.size = child.size]
    ELSE IF b.indexOffset + b.size < child.indexOffset
    THEN [b EXCEPT !.size = child.indexOffset - b.indexOffset + child.size]
    ELSE IF b.indexOffset > child.indexOffset
    THEN [b EXCEPT !.size = b.indexOffset - child.indexOffset + b.size,
                   !.indexOffset = child.indexOffset]
    ELSE b

\* TcNamespaceBinding.__addChild on the binding record b
NsAddChildTo(b, child) ==
    LET b1 == [b EXCEPT !.children = Append(@, child), !.threw = FALSE]
        b2 == NsGroupStep(b1, child)
    IN  IF b2.threw THEN b2 ELSE NsRangeStep(b2, child)

NsAddChild ==
    /\ Len(ns.children) < MaxNsChildren
    /\ \E child \in NsChildPointers : ns' = NsAddChildTo(ns, child)
    /\ UNCHANGED <<com, reg, sym, sub, ctx>>

\* A new TcNamespaceBinding (TcSymbolRegistry.create after a destroy)
NsNew ==
    /\ ns.children # <<>>
    /\ ns' = NsIdle
    /\ UNCHANGED <<com, reg, sym, sub, ctx>>

NsChildGroups == {ns.children[k].indexGroup : k \in 1..Len(ns.children)}
NsChildStarts == {ns.children[k].indexOffset : k \in 1..Len(ns.children)}
NsChildEnds == {ns.children[k].indexOffset + ns.children[k].size : k \in 1..Len(ns.children)}

\* C7: after attaching any children that share one index group, the namespace's
\* indexGroup is that group, its indexOffset the least child offset and its size
\* the greatest child end minus that offset.
C7_NamespaceSpansChildren ==
    (ns.children # <<>> /\ Cardinality(NsChildGroups) = 1) =>
        /\ ns.indexGroup \in NsChildGroups
        /\ ns.indexOffset = Min(NsChildStarts)
        /\ ns.size = Max(NsChildEnds) - Min(NsChildStarts)

\* The case C7 is about: two or more children of one group attached
C7_ChildrenAttached == Len(ns.children) >= 2 /\ Cardinality(NsChildGroups) = 1


-----------------------------------------------------------------------------
(* TcType and its variants  (tc-type.ts)                                   *)

\* ADST: the wire kinds of tc-com.ts used by the model
ADST_INT16 == 2
ADST_STRING == 30
ADST_BIT == 33
ADST_BIGTYPE == 65
ADST_UINT32 == 19

\* An optional value: <<>> is undefined, <<x>> is x
None == <<>>
Some(x) == <<x>>

\* JavaScript values: booleans and numbers carry n, strings their character
\* codes, objects their entries (key, value) in key order, arrays their elements
VBool(b) == [t |-> "boolean", n |-> IF b THEN 1 ELSE 0, s |-> <<>>]
VNum(n) == [t |-> "number", n |-> n, s |-> <<>>]
VStr(codes) == [t |-> "string", n |-> 0, s |-> codes]
VObj(entries) == [t |-> "object", n |-> 0, s |-> entries]
VArr(elements) == [t |-> "array", n |-> 0, s |-> elements]
VNull == [t |-> "null", n |-> 0, s |-> <<>>]

\* The character codes of the string literals of the model
Chars(literal) ==
    CASE literal = "" -> <<>>
      [] literal = "a" -> <<97>>
      [] literal = "ab" -> <<97, 98>>
      [] literal = "true" -> <<116, 114, 117, 101>>
      [] literal = "false" -> <<102, 97, 108, 115, 101>>
      [] literal = "." -> <<46>>
      [] literal = "A" -> <<65>>
      [] literal = "B" -> <<66>>
      [] literal = "E" -> <<69>>
      [] literal = "E.A" -> <<69, 46, 65>>
      [] literal = "E.B" -> <<69, 46, 66>>
      [] literal = "E.C" -> <<69, 46, 67>>
      [] literal = "constructor" -> <<99, 111, 110, 115, 116, 114, 117, 99, 116, 111, 114>>

\* name.trim().toLowerCase() for the attribute names of the model
AttrKey(name) ==
    CASE name \in {"ReadOnly", "readonly", " ReadOnly "} -> "readonly"
      [] name \in {"Ignored", "ignored"} -> "ignored"
      [] name \in {"Ignore", "ignore"} -> "ignore"
      [] name \in {"onSet", "onset", "OnSet"} -> "onset"
      [] name \in {"onGet", "onget", "OnGet"} -> "onget"
      [] name \in {"onClear", "onclear", "OnClear"} -> "onclear"
      [] name \in {"onChange", "onchange", "OnChange"} -> "onchange"
      [] name \in {"Default", "default"} -> "default"
      [] name \in {"LowerBorder", "lowerborder"} -> "lowerborder"
      [] name \in {"UpperBorder", "upperborder"} -> "upperborder"
      [] OTHER -> name

\* a || b on numbers: 0 (and undefined, modelled as 0) is falsy
OrNum(a, b) == IF a # 0 THEN a ELSE b

\* a || b on strings: '' (and undefined, modelled as "") is falsy
OrStr(a, b) == IF a # "" THEN a ELSE b

\* ADST.INT16 range of TcNumericType.ranges
INT16_MIN == -32768
INT16_MAX == 32767

\* parseFloat on the numeric literals the attributes of the model carry
ParseFloat(value) ==
    CASE value = "0" -> 0
      [] value = "1" -> 1
      [] value = "2" -> 2
      [] value = "3" -> 3
      [] value = "-1" -> -1

\* value.trim().toLowerCase() === 'true'
IsTrueLiteral(value) == value \in {"true", "TRUE", "True", " true "}

\* TcNumericType.upperBorder / lowerBorder: the border, or the range of the kind
UpperBorder(t) == IF t.upperBorder = None THEN INT16_MAX ELSE t.upperBorder[1]
LowerBorder(t) == IF t.lowerBorder = None THEN INT16_MIN ELSE t.lowerBorder[1]

\* The defaultValue getters: false (0) for a boolean, 0 for a numeric and '' for
\* a string type without a default, the stored value otherwise (undefined for the
\* composites)
DefaultValue(t) ==
    IF t.default = None /\ t.kind \in {"boolean", "numeric"} THEN Some(0)
    ELSE IF t.default = None /\ t.kind = "string" THEN Some(VStr(<<>>))
    ELSE t.default

\* The characters the transport encodes for a STRING: the value itself, or the
\* text of a value that is not a string ("" + value)
StringOf(value) ==
    IF value.t = "string" THEN value.s
    ELSE IF value.t = "boolean" THEN Chars(IF value.n = 1 THEN "true" ELSE "")
    ELSE <<>>

\* ads.convertToRaw for a STRING: the characters copied into a zeroed buffer of
\* the size of the type
StringToRaw(size, codes) ==
    [i \in 1..size |-> IF i <= Len(codes) THEN codes[i] ELSE 0]

\* ads.convertToRaw for BOOL (one byte), the integers (little endian, two's
\* complement, of the size of the type) and STRING
ConvertToRaw(t, n) ==
    IF t.kind = "boolean" THEN <<n>>
    ELSE IF t.kind = "string" THEN StringToRaw(t.size, StringOf(n))
    ELSE LET m == n % (256 ^ t.size)
         IN  [i \in 1..t.size |-> (m \div (256 ^ (i - 1))) % 256]

RECURSIVE Unsigned(_)
\* The unsigned number held by little-endian bytes
Unsigned(bytes) ==
    IF bytes = <<>> THEN 0 ELSE Head(bytes) + 256 * Unsigned(Tail(bytes))

RECURSIVE StringFromRaw(_)
\* ads.convertFromRaw for a STRING: the characters before the first zero byte
StringFromRaw(bytes) ==
    IF bytes = <<>> \/ Head(bytes) = 0 THEN <<>>
    ELSE <<Head(bytes)>> \o StringFromRaw(Tail(bytes))

\* ads.convertFromRaw for BOOL (any non-zero byte is true) and the signed integers
ConvertFromRaw(kind, bytes) ==
    IF kind = "boolean" THEN (IF bytes[1] = 0 THEN 0 ELSE 1)
    ELSE LET u == Unsigned(bytes)
             half == (256 ^ Len(bytes)) \div 2
         IN  IF u >= half THEN u - 2 * half ELSE u

\* The members the controller declares for the enumeration E : INT, with the
\* buffers of their values (A := 0, B := 257)
EnumMembers ==
    << [name |-> Chars("A"), value |-> <<0, 0>>],
       [name |-> Chars("B"), value |-> <<1, 1>>] >>

\* ads.convertFromRaw for an enumeration: the declared member that has the value
\* (no name when the controller holds a value of no member)
EnumFromRaw(bytes) ==
    [name |-> IF SelectSeq(EnumMembers, LAMBDA e : e.value = bytes) = <<>> THEN <<>>
              ELSE Head(SelectSeq(EnumMembers, LAMBDA e : e.value = bytes)).name]

\* TcType.__getParameter: the attributes every type understands (k is the
\* trimmed lower-case attribute name)
BaseParameter(t, k, value) ==
    CASE k = "readonly" -> [t EXCEPT !.readOnly = TRUE]
      [] k = "ignored"  -> [t EXCEPT !.ignored = TRUE]
      [] k = "onset"    -> [t EXCEPT !.onSet = value]
      [] k = "onget"    -> [t EXCEPT !.onGet = value]
      [] k = "onclear"  -> [t EXCEPT !.onClear = value]
      [] k = "onchange" -> [t EXCEPT !.onChange = value]
      [] OTHER -> t

\* TcBooleanType.__getParameter after super.__getParameter
BooleanParameter(t, k, value) ==
    IF k = "default" /\ IsTrueLiteral(value) THEN [t EXCEPT !.default = Some(1)] ELSE t

\* TcNumericType.__getParameter after super.__getParameter
NumericParameter(t, k, value) ==
    CASE k = "lowerborder" ->
            [t EXCEPT !.lowerBorder = Some(ParseFloat(value)),
                      !.default = IF @ = None THEN Some(ParseFloat(value)) ELSE @]
      [] k = "upperborder" -> [t EXCEPT !.upperBorder = Some(ParseFloat(value))]
      [] k = "default" -> [t EXCEPT !.default = Some(ParseFloat(value))]
      [] OTHER -> t

\* TcStringType.__getParameter after super.__getParameter: this.__default = true
StringParameter(t, k, value) ==
    IF k = "default" THEN [t EXCEPT !.default = Some(VBool(TRUE))] ELSE t

\* TcEnumType.__getParameter after super.__getParameter: the text as it stands
EnumParameter(t, k, value) ==
    IF k = "default" THEN [t EXCEPT !.default = Some(value)] ELSE t

\* The own part of __getParameter of the variant
VariantParameter(t, k, value) ==
    CASE t.kind = "boolean" -> BooleanParameter(t, k, value)
      [] t.kind = "numeric" -> NumericParameter(t, k, value)
      [] t.kind = "string" -> StringParameter(t, k, value)
      [] t.kind = "enum" -> EnumParameter(t, k, value)
      [] OTHER -> t

\* this.__getParameter(name, value)
GetParameter(t, name, value) ==
    VariantParameter(BaseParameter(t, AttrKey(name), value), AttrKey(name), value)

RECURSIVE MutateAttrs(_, _)
\* mutator.attributes?.forEach(({name, value}) => this.__getParameter(name, value))
MutateAttrs(t, attrs) ==
    IF attrs = <<>> THEN t
    ELSE MutateAttrs(GetParameter(t, Head(attrs).name, Head(attrs).value), Tail(attrs))

\* this.offset = mutator.offset || this.offset
MutateOffset(t, mutator) == [t EXCEPT !.offset = OrNum(mutator.offset, t.offset)]

\* TcType.mutate
Mutate(t, mutator) == MutateOffset(MutateAttrs(t, mutator.attributes), mutator)

\* TcType.constructor from a TcTypeInfo, with the variant's own fields
NewType(kind, typeData, children, child, dimensions) ==
    Mutate([kind |-> kind, name |-> typeData.name, adst |-> typeData.adsDataType,
            offset |-> OrNum(typeData.offset, 0), size |-> typeData.size,
            readOnly |-> FALSE, ignored |-> FALSE,
            onSet |-> "", onGet |-> "", onClear |-> "", onChange |-> "",
            default |-> None, defaultBuffer |-> None,
            lowerBorder |-> None, upperBorder |-> None,
            children |-> children, child |-> child, dimensions |-> dimensions,
            fields |-> <<>>, buffers |-> <<>>],
           typeData)

\* type.defaultBuffer = await context.COM.toRaw(type.name, type.defaultValue)
WithDefaultBuffer(t) ==
    [t EXCEPT !.defaultBuffer = Some(ConvertToRaw(t, DefaultValue(t)[1]))]

\* The rest of the static create of a variant: undefined when the type came out
\* ignored; the boolean, numeric and string variants convert their default to its
\* buffer
Created(t) ==
    IF t.ignored THEN None
    ELSE IF t.kind \in {"boolean", "numeric", "string"} THEN Some(WithDefaultBuffer(t))
    ELSE Some(t)

\* The static create of a variant
CreateType(kind, typeData, children, child, dimensions) ==
    Created(NewType(kind, typeData, children, child, dimensions))

\* One turn of typeData.enumInfo.forEach in the TcEnumType constructor: the field
\* under its qualified name with its buffer; the first field is the default
\* unless the attributes declared one
EnumField(t, typeData, enumField) ==
    [t EXCEPT
       !.fields = Append(@, Chars(typeData.name) \o Chars(".") \o enumField.name),
       !.buffers = Append(@, [key |-> Chars(typeData.name) \o Chars(".")
                                         \o enumField.name,
                              data |-> enumField.value]),
       !.default = IF @ = None THEN Some(VStr(enumField.name)) ELSE @,
       !.defaultBuffer = IF t.default = None THEN Some(enumField.value) ELSE @]

RECURSIVE EnumFields(_, _, _)
\* The TcEnumType constructor over a raw entry, field after field
EnumFields(t, typeData, enumInfo) ==
    IF enumInfo = <<>> THEN t
    ELSE EnumFields(EnumField(t, typeData, Head(enumInfo)), typeData, Tail(enumInfo))

\* TcEnumType.create: undefined when the type came out ignored
CreateEnum(typeData) ==
    Created(EnumFields(NewType("enum", typeData, <<>>, None, <<>>), typeData,
                       typeData.enumInfo[1]))

\* TcType.__clone: `type` is the mutated copy of `this`; undefined when ignored, the
\* default buffer is converted again when the default moved
Cloned(type, this) ==
    IF type.ignored THEN None
    ELSE IF DefaultValue(type) # DefaultValue(this) THEN Some(WithDefaultBuffer(type))
    ELSE Some(type)

\* clone(mutator) (the copy constructor takes every field over)
Clone(t, mutator) == Cloned(Mutate(t, mutator), t)

\* TcType.extend / TcNumericType.extend: the raw entry names `t` as its parent
Extend(t, adsTypeData) ==
    IF adsTypeData.adsDataType = t.adst
    THEN IF t.kind = "numeric" /\ adsTypeData.enumInfo # None
         THEN CreateEnum(adsTypeData)
         ELSE IF adsTypeData.arrayData # <<>>
         THEN CreateType("array", adsTypeData, <<>>, Some(t), adsTypeData.arrayData)
         ELSE Clone(t, adsTypeData)
    ELSE None

\* The getters of the event names: the alias, or the default name
TypeOnSet(t) == OrStr(t.onSet, "set")
TypeOnGet(t) == OrStr(t.onGet, "get")
TypeOnClear(t) == OrStr(t.onClear, "cleared")
TypeOnChange(t) == OrStr(t.onChange, "changed")

-----------------------------------------------------------------------------
(* TcTypeRegistry  (tc-type-registry.ts)                                   *)

\* Most members declared by the struct X of a catalogue
MaxMembers == 3

\* Deepest chain of pending calls followed before the run is given up
MaxStack == 12

\* name.toLowerCase() for the type names of the model
Lower(name) ==
    CASE name = "X" -> "x"
      [] name = "Y" -> "y"
      [] name = "INT" -> "int"
      [] name = "BOOL" -> "bool"
      [] name = "POINTER TO INT" -> "pointer to int"
      [] name = "MISSING" -> "missing"
      [] OTHER -> name

\* TcTypeRegistry.__adsTypeIsPointerOrReference
IsPointerOrReference(adsTypeData) ==
    adsTypeData.name \in {"POINTER TO INT", "REFERENCE TO BYTE"}

\* TcTypeRegistry.__adsTypeIsStruct
IsStruct(adsTypeData) ==
    adsTypeData.adsDataType = ADST_BIGTYPE /\ Len(adsTypeData.subItems) # 0

\* TcTypeRegistry.__adsTypeIsBit
IsBit(adsTypeData) == adsTypeData.adsDataType = ADST_BIT

\* TcTypeRegistry.__adsTypeIsString
IsString(adsTypeData) == adsTypeData.adsDataType = ADST_STRING

\* TcTypeRegistry.__adsTypeIsNumber
IsNumber(adsTypeData) == adsTypeData.adsDataType \in {ADST_INT16, ADST_UINT32}

\* A raw catalogue entry (TcTypeInfo) or a member of one (subItems[i])
TypeInfo(name, type, adsDataType, size, offset, attributes, subItems) ==
    [name |-> name, type |-> type, adsDataType |-> adsDataType, size |-> size,
     offset |-> offset, attributes |-> attributes, subItems |-> subItems,
     arrayData |-> <<>>, enumInfo |-> None]

IgnoredAttr == <<[name |-> "Ignored", value |-> ""]>>
IgnoreAttr == <<[name |-> "Ignore", value |-> ""]>>
DefaultAttr(value) == <<[name |-> "Default", value |-> value]>>
LowerBorderAttr(value) == <<[name |-> "LowerBorder", value |-> value]>>
UpperBorderAttr(value) == <<[name |-> "UpperBorder", value |-> value]>>

\* What the members of X may be: a type name and the member's own attributes
MemberChoices ==
    { <<"INT", <<>>>>, <<"INT", IgnoredAttr>>, <<"POINTER TO INT", <<>>>>,
      <<"Y", <<>>>>, <<"MISSING", <<>>>> }

MemberKey(i) == CASE i = 1 -> "m1" [] i = 2 -> "m2" [] i = 3 -> "m3"
                  [] i = 4 -> "m4" [] OTHER -> "m5"

\* The wire kind the controller reports for a member of the given type
MemberAdst(type) ==
    CASE type \in {"X", "Y"} -> ADST_BIGTYPE
      [] type = "POINTER TO INT" -> ADST_UINT32
      [] OTHER -> ADST_INT16

\* The i-th member: members are laid out two bytes apart
Member(i, choice) ==
    TypeInfo(MemberKey(i), choice[1], MemberAdst(choice[1]), 2, 2 * (i - 1),
             choice[2], <<>>)

MemberLists ==
    UNION { [1..n -> MemberChoices] : n \in 0..MaxMembers }

\* The order of Object.entries(adsTypeDataMap): the order the entries were added
CatalogueOrder == <<"x", "y", "int", "bool", "pointer to int">>

\* The catalogue with the given members and parents of X and Y
Catalogue(xMembers, xParent, yMember, yParent) ==
    [id \in {CatalogueOrder[k] : k \in 1..Len(CatalogueOrder)} |->
        CASE id = "x" -> TypeInfo("X", xParent, ADST_BIGTYPE, 2 * MaxMembers, 0, <<>>,
                                  [i \in 1..Len(xMembers) |-> Member(i, xMembers[i])])
          [] id = "y" -> TypeInfo("Y", yParent, ADST_BIGTYPE, 2, 0, <<>>,
                                  <<Member(1, <<yMember, <<>>>>)>>)
          [] id = "int" -> TypeInfo("INT", "", ADST_INT16, 2, 0, <<>>, <<>>)
          [] id = "bool" -> TypeInfo("BOOL", "", ADST_BIT, 1, 0, <<>>, <<>>)
          [] OTHER -> TypeInfo("POINTER TO INT", "INT", ADST_UINT32, 4, 0, <<>>, <<>>)]

Catalogues ==
    { Catalogue(xm, xp, ym, yp) :
        xm \in MemberLists, xp \in {"", "Y"},
        ym \in {"INT", "X", "POINTER TO INT"}, yp \in {"", "X"} }

\* The attribute lists of the numeric catalogue: any combination and order of
\* default, lowerborder and upperborder, up to MaxAttrs attributes
MaxAttrs == 2
NumericAttrChoices ==
    { DefaultAttr("1")[1], DefaultAttr("3")[1], LowerBorderAttr("1")[1],
      UpperBorderAttr("2")[1], UpperBorderAttr("-1")[1] }
NumericAttrLists(n) == UNION { [1..k -> NumericAttrChoices] : k \in 0..n }

NumericOrder == <<"y", "x", "int">>

\* The catalogue of numeric types: INT, the sub-range X extended from INT, and
\* the struct Y whose member m1 clones INT or X with the member's attributes
NumericCatalogue(intAttrs, xAttrs, mType, mAttrs) ==
    [id \in {NumericOrder[k] : k \in 1..Len(NumericOrder)} |->
        CASE id = "int" -> TypeInfo("INT", "", ADST_INT16, 2, 0, intAttrs, <<>>)
          [] id = "x" -> TypeInfo("X", "INT", ADST_INT16, 2, 0, xAttrs, <<>>)
          [] OTHER -> TypeInfo("Y", "", ADST_BIGTYPE, 2, 0, <<>>,
                               <<TypeInfo("m1", mType, ADST_INT16, 2, 0, mAttrs, <<>>)>>)]

NumericCatalogues(n) ==
    { NumericCatalogue(ia, xa, mt, ma) :
        ia \in NumericAttrLists(1), xa \in NumericAttrLists(n),
        mt \in {"INT", "X"}, ma \in NumericAttrLists(n) }

RegIdle == [pc |-> "idle", objs |-> <<>>, orig |-> <<>>, live |-> {}, map |-> <<>>,
            todo |-> <<>>, stack |-> <<>>, ret |-> <<>>,
            ext |-> [pc |-> "idle", this |-> None, raw |-> None, out |-> None],
            heap |-> <<>>, from |-> <<>>, cloned |-> [this |-> 0, out |-> 0]]

\* The raw descriptors that name INT as their parent: with and without array
\* dimensions, with and without enum fields, of INT's wire type or another, with
\* attributes
RawExtensions ==
    { [TypeInfo("E", "INT", adst, 2, 0, attributes, <<>>)
          EXCEPT !.arrayData = arrayData, !.enumInfo = enumInfo] :
        adst \in {ADST_INT16, ADST_UINT32},
        attributes \in NumericAttrLists(1),
        arrayData \in {<<>>, <<[startIndex |-> 0, length |-> 2]>>},
        enumInfo \in {None, Some(EnumMembers)} }

\* TcNumericType.create for the raw descriptor of INT
ExtCreate ==
    /\ reg.ext.pc = "idle"
    /\ \E attributes \in NumericAttrLists(1) :
          reg' = [reg EXCEPT !.ext.pc = "created",
                             !.ext.this = CreateType("numeric",
                                 TypeInfo("INT", "", ADST_INT16, 2, 0, attributes, <<>>),
                                 <<>>, None, <<>>)]
    /\ UNCHANGED <<com, ns, sym, sub, ctx>>

\* type.extend(adsTypeData) on the numeric type
ExtExtend ==
    /\ reg.ext.pc # "idle"
    /\ \E adsTypeData \in RawExtensions :
          reg' = [reg EXCEPT !.ext.pc = "extended", !.ext.raw = Some(adsTypeData),
                             !.ext.out = Extend(reg.ext.this[1], adsTypeData)]
    /\ UNCHANGED <<com, ns, sym, sub, ctx>>

\* A pending call: the function, the raw entry it works on and its local variables
Frame(f, id) == [f |-> f, id |-> id, ph |-> 0, i |-> 0, child |-> <<>>, result |-> <<>>]

Top(r) == r.stack[Len(r.stack)]

\* The running function returns v to its caller
Return(r, v) == [r EXCEPT !.stack = SubSeq(@, 1, Len(@) - 1), !.ret = v]

\* The running function moves to phase ph and awaits a call of frame fr
Call(r, ph, fr) ==
    IF Len(r.stack) >= MaxStack THEN [r EXCEPT !.pc = "overflow"]
    ELSE [r EXCEPT !.stack = Append([@ EXCEPT ![Len(@)].ph = ph], fr)]

\* TcTypeRegistry.__adsTypeDeleteEntry
DeleteEntry(r, adsTypeData) == [r EXCEPT !.live = @ \ {Lower(adsTypeData.name)}]

\* TcTypeRegistry.__adsTypeDeleteChild: subItems.splice(index, 1)
DeleteChild(r, id, index) ==
    [r EXCEPT !.objs[id].subItems =
        SubSeq(@, 1, index) \o SubSeq(@, index + 2, Len(@))]

\* TcTypeRegistry.register
Register(r, name, type) ==
    [r EXCEPT !.map = [n \in DOMAIN @ \cup {name} |-> IF n = name THEN type ELSE @[n]]]

\* TcTypeRegistry.__adsTypeHasParent: the id of the parent entry, or none
HasParent(r, adsTypeData) ==
    IF adsTypeData.type # "" /\ adsTypeData.type # adsTypeData.name
       /\ Lower(adsTypeData.type) \in r.live
       /\ r.objs[Lower(adsTypeData.type)].adsDataType = adsTypeData.adsDataType
    THEN Some(Lower(adsTypeData.type))
    ELSE None

\* One step of TcTypeRegistry.__adsTypeRegister, running on top of the stack
AdsTypeRegister(r) ==
    LET fr == Top(r)
        d  == r.objs[fr.id]
    IN  IF fr.ph = 0
        THEN IF d.name \in DOMAIN r.map THEN Return(r, Some(r.map[d.name]))
             ELSE IF IsPointerOrReference(d) THEN Return(DeleteEntry(r, d), None)
             ELSE IF Lower(d.name) \notin r.live THEN Return(r, None)
             ELSE Call(r, 1, Frame("process", fr.id))
        ELSE IF r.ret # None
             THEN Return(Register(r, d.name, r.ret[1]), r.ret)
             ELSE Return(DeleteEntry(r, d), None)

\* The variant __adsTypeProcess builds for an entry without (resolved) parent
ClassifyKind(adsTypeData, children) ==
    IF IsBit(adsTypeData) THEN "boolean"
    ELSE IF IsNumber(adsTypeData) THEN "numeric"
    ELSE IF IsString(adsTypeData) THEN "string"
    ELSE IF IsStruct(adsTypeData) /\ Len(children) > 0 THEN "struct"
    ELSE ""

\* The create call of that branch, undefined when no branch applies
Classify(adsTypeData, children) ==
    IF ClassifyKind(adsTypeData, children) = "" THEN None
    ELSE CreateType(ClassifyKind(adsTypeData, children), adsTypeData,
                    IF IsStruct(adsTypeData) THEN children ELSE <<>>, None, <<>>)

\* One step of TcTypeRegistry.__adsTypeProcess (with __adsTypeProcessParent)
AdsTypeProcess(r) ==
    LET fr == Top(r)
        d  == r.objs[fr.id]
        parent == HasParent(r, d)
    IN  CASE fr.ph = 0 ->
               IF parent # None THEN Call(r, 1, Frame("register", parent[1]))
               ELSE Call(r, 2, Frame("children", fr.id))
          [] fr.ph = 1 ->
               IF r.ret # None THEN Return(r, Extend(r.ret[1], d))
               ELSE Call(r, 2, Frame("children", fr.id))
          [] OTHER -> Return(r, Classify(d, r.ret))

\* One step of TcTypeRegistry.__adsTypeProcessChildren; `child` is read before
\* the awaited __adsTypeRegister call and used after it
AdsTypeProcessChildren(r) ==
    LET fr == Top(r)
        n  == Len(r.stack)
        subItems == r.objs[fr.id].subItems
        next(q) == [q EXCEPT !.stack[n].i = @ + 1, !.stack[n].ph = 0,
                             !.stack[n].child = <<>>]
    IN  IF fr.ph = 0
        THEN IF ~(fr.i < Len(subItems)) THEN Return(r, fr.result)
             ELSE LET child == subItems[fr.i + 1]
                  IN  IF Lower(child.type) \in r.live
                      THEN Call([r EXCEPT !.stack[n].child = Some(child)], 1,
                                Frame("register", Lower(child.type)))
                      ELSE next(DeleteChild(r, fr.id, fr.i))
        ELSE LET child == fr.child[1]
                 extended == IF r.ret # None THEN Clone(r.ret[1], child) ELSE None
             IN  IF extended # None
                 THEN next([r EXCEPT !.stack[n].result =
                               Append(@, [key |-> child.name, type |-> extended[1]])])
                 ELSE next(DeleteChild(r, fr.id, fr.i))

\* TcTypeRegistry.create up to the first entry: the catalogue is fetched
RegCreate ==
    /\ reg.pc = "idle"
    /\ \E cat \in Catalogues :
          reg' = [RegIdle EXCEPT !.pc = "run", !.objs = cat, !.orig = cat,
                                 !.live = DOMAIN cat, !.todo = CatalogueOrder]
    /\ UNCHANGED <<com, ns, sym, sub, ctx>>

\* TcTypeRegistry.create on a controller whose catalogue holds numeric types
RegCreateNumeric ==
    /\ reg.pc = "idle"
    /\ \E cat \in NumericCatalogues(MaxAttrs) :
          reg' = [RegIdle EXCEPT !.pc = "run", !.objs = cat, !.orig = cat,
                                 !.live = DOMAIN cat, !.todo = NumericOrder]
    /\ UNCHANGED <<com, ns, sym, sub, ctx>>

\* The for loop of TcTypeRegistry.create: the next entry, or the 'created' event
RegLoop ==
    /\ reg.pc = "run"
    /\ reg.stack = <<>>
    /\ reg' = IF reg.todo # <<>>
              THEN [reg EXCEPT !.todo = Tail(@),
                               !.stack = <<Frame("register", Head(reg.todo))>>]
              ELSE [reg EXCEPT !.pc = "done"]
    /\ UNCHANGED <<com, ns, sym, sub, ctx>>

RegRegister ==
    /\ reg.pc = "run"
    /\ reg.stack # <<>>
    /\ Top(reg).f = "register"
    /\ reg' = AdsTypeRegister(reg)
    /\ UNCHANGED <<com, ns, sym, sub, ctx>>

RegProcess ==
    /\ reg.pc = "run"
    /\ reg.stack # <<>>
    /\ Top(reg).f = "process"
    /\ reg' = AdsTypeProcess(reg)
    /\ UNCHANGED <<com, ns, sym, sub, ctx>>

RegChildren ==
    /\ reg.pc = "run"
    /\ reg.stack # <<>>
    /\ Top(reg).f = "children"
    /\ reg' = AdsTypeProcessChildren(reg)
    /\ UNCHANGED <<com, ns, sym, sub, ctx>>

\* TcTypeRegistry.destroy
RegDestroy ==
    /\ reg.pc = "done"
    /\ reg' = RegIdle
    /\ UNCHANGED <<com, ns, sym, sub, ctx>>


\* The keys of a member list
MemberKeys(members) == [k \in 1..Len(members) |-> members[k].key]

\* The declared children of a raw entry that should survive: those whose type is
\* registered and whose clone under the child's own attributes is not ignored
SurvivingKeys(r, adsTypeData) ==
    LET survives(c) == /\ c.type \in DOMAIN r.map
                       /\ Clone(r.map[c.type], c) # None
        kept == SelectSeq(adsTypeData.subItems, survives)
    IN  [k \in 1..Len(kept) |-> kept[k].name]

\* The struct types of the registry built from their own raw descriptor (no parent)
OwnStructs(r) ==
    {n \in DOMAIN r.map : r.map[n].kind = "struct" /\ r.orig[Lower(n)].type = ""}

\* C9: once the registry is built, the member list of every struct registered from
\* a raw composite descriptor is the list of its declared children, in declaration
\* order, restricted to those whose type resolves and whose clone is not ignored.
C9_StructMembers ==
    reg.pc = "done" =>
        \A n \in OwnStructs(reg) :
            MemberKeys(reg.map[n].children) = SurvivingKeys(reg, reg.orig[Lower(n)])

\* The case C9 is about: a registered struct one of whose declared children was
\* dropped and another kept
C9_StructWithDroppedChild ==
    /\ reg.pc = "done"
    /\ \E n \in OwnStructs(reg) :
          /\ Len(reg.map[n].children) >= 1
          /\ Len(reg.map[n].children) < Len(reg.orig[Lower(n)].subItems)

\* The catalogue entries whose __adsTypeRegister call is pending, innermost last
PendingRegisters(r) ==
    LET fs == SelectSeq(r.stack, LAMBDA fr : fr.f = "register")
    IN  [k \in 1..Len(fs) |-> fs[k].id]

\* C10: TcTypeRegistry.create terminates on every finite catalogue: no entry is
\* being resolved inside its own resolution (a chain that re-enters an entry with
\* nothing registered or deleted in between repeats for ever), and no registered
\* type contains itself.
C10_NoReentry ==
    \A i, j \in 1..Len(PendingRegisters(reg)) :
        i # j => PendingRegisters(reg)[i] # PendingRegisters(reg)[j]

\* The case C10 names: X has a member of type Y and Y a member of type X
C10_MemberCycleStarted ==
    /\ reg.pc = "run"
    /\ reg.orig["x"].type = "" /\ reg.orig["y"].type = ""
    /\ \E k \in 1..Len(reg.orig["x"].subItems) : reg.orig["x"].subItems[k].type = "Y"
    /\ reg.orig["y"].subItems[1].type = "X"

\* A raw entry built from its own descriptor all of whose declared members have a
\* pointer-to or reference-to type
PointerOnly(adsTypeData) ==
    /\ adsTypeData.type = "" /\ adsTypeData.adsDataType = ADST_BIGTYPE
    /\ Len(adsTypeData.subItems) > 0
    /\ \A k \in 1..Len(adsTypeData.subItems) :
          IsPointerOrReference([name |-> adsTypeData.subItems[k].type])

\* A raw entry that resolves against the registry r: a primitive that is neither a
\* pointer nor ignored, or a composite built from its own descriptor with a
\* declared member that survives
Resolvable(r, adsTypeData) ==
    /\ ~IsPointerOrReference(adsTypeData)
    /\ adsTypeData.type = ""
    /\ \/ /\ IsBit(adsTypeData) \/ IsNumber(adsTypeData) \/ IsString(adsTypeData)
          /\ ~MutateAttrs([ignored |-> FALSE, readOnly |-> FALSE, onSet |-> "",
                           onGet |-> "", onClear |-> "", onChange |-> "",
                           kind |-> ""], adsTypeData.attributes).ignored
       \/ /\ adsTypeData.adsDataType = ADST_BIGTYPE
          /\ SurvivingKeys(r, adsTypeData) # <<>>

\* No registered type is a pointer or reference, is ignored or is a struct without
\* members, and no member of a registered struct (element of a registered array)
\* has a pointer or reference type
Bindable(r) ==
    \A n \in DOMAIN r.map :
        /\ ~IsPointerOrReference(r.map[n]) /\ ~IsPointerOrReference([name |-> n])
        /\ ~r.map[n].ignored
        /\ r.map[n].kind = "struct" => Len(r.map[n].children) > 0
        /\ \A k \in 1..Len(r.map[n].children) :
              ~IsPointerOrReference(r.map[n].children[k].type)
        /\ r.map[n].kind = "array" => ~IsPointerOrReference(r.map[n].child[1])

\* Where the catalogue holds a struct with pointer members only, that struct is
\* not registered and every other entry that resolves is
PointerOnlyAbsent(r) ==
    \A id \in DOMAIN r.orig :
        PointerOnly(r.orig[id]) =>
            /\ r.orig[id].name \notin DOMAIN r.map
            /\ \A other \in DOMAIN r.orig \ {id} :
                  Resolvable(r, r.orig[other]) => r.orig[other].name \in DOMAIN r.map

\* C11: after a type-registry build over any catalogue, no registered type is a
\* pointer-to/reference-to type, an ignored type or a struct with zero members; no
\* registered struct has a member, and no registered array an element, of a
\* pointer-to/reference-to type; and a struct all of whose members are pointers or
\* references is not registered while the other resolvable entries are.
C11_RegistryBindable ==
    reg.pc = "done" => Bindable(reg) /\ PointerOnlyAbsent(reg)

\* The case C11 is about: a build is over whose catalogue held a struct with
\* pointer members only next to another struct with a member that resolves
C11_PointerOnlyStructBuilt ==
    /\ reg.pc = "done"
    /\ \E id \in DOMAIN reg.orig :
          /\ PointerOnly(reg.orig[id])
          /\ \E other \in DOMAIN reg.orig \ {id} :
                /\ reg.orig[other].adsDataType = ADST_BIGTYPE
                /\ Resolvable(reg, reg.orig[other])

\* The numeric types the registry holds: registered ones and the member clones
\* of the registered structs
NumericTypes(r) ==
    { r.map[n] : n \in {m \in DOMAIN r.map : r.map[m].kind = "numeric"} }
    \cup UNION { { r.map[n].children[k].type :
                     k \in {j \in 1..Len(r.map[n].children) :
                               r.map[n].children[j].type.kind = "numeric"} } :
                 n \in {m \in DOMAIN r.map : r.map[m].kind = "struct"} }

InBorders(t) ==
    /\ LowerBorder(t) <= DefaultValue(t)[1]
    /\ DefaultValue(t)[1] <= UpperBorder(t)

\* C16: every numeric type in the registry, and every clone of it produced by
\* attribute mutators (default, lowerborder, upperborder in any combination and
\* order, a sub-range type extended from a parent included), has its default
\* value between its lower and its upper border.
C16_DefaultInBorders == \A t \in NumericTypes(reg) : InBorders(t)

\* The case C16 is about: the sub-range type and the member clone of it are
\* registered, each after border mutators
C16_SubRangeCloned ==
    /\ reg.pc = "done"
    /\ {"X", "Y"} \subseteq DOMAIN reg.map
    /\ reg.map["X"].lowerBorder # None
    /\ reg.map["Y"].children[1].type.upperBorder # None
    /\ reg.map["Y"].children[1].type.upperBorder # reg.map["X"].upperBorder

-----------------------------------------------------------------------------
(* TcSymbol and TcBinding  (tc-symbol.ts, tc-binding.ts)                   *)

\* The emitters above the symbols: a symbol is named by its position path (<<>> is
\* the namespace, <<k>> its k-th child, ...), the registries by paths no symbol has
NsPath == <<>>
SymbolRegistry == <<0>>
Context == <<0, 0>>

\* TcBinding.constructor: the aliases or the default names, no pointer yet
Binding(path, kind, parentEmitter, onSet, onGet, onClear, onChange) ==
    [path |-> path, kind |-> kind, parent |-> parentEmitter,
     onSet |-> OrStr(onSet, "set"), onGet |-> OrStr(onGet, "get"),
     onClear |-> OrStr(onClear, "cleared"), onChange |-> OrStr(onChange, "changed"),
     indexGroup |-> 0, indexOffset |-> 0, size |-> 0, threw |-> FALSE,
     readPackages |-> <<>>, clearPackages |-> <<>>, children |-> <<>>,
     readOnly |-> FALSE, startIndex |-> 0, length |-> 0,
     lowerBorder |-> 0, upperBorder |-> 0,
     type |-> "", fields |-> <<>>, buffers |-> <<>>]

\* TcSymbolBinding.constructor: super(context, symbol, parent, parameters.onGet,
\* parameters.onSet, parameters.onClear, parameters.onChange), then the pointer
SymbolBinding(path, kind, pointer, parameters, parentEmitter) ==
    [Binding(path, kind, parentEmitter, TypeOnGet(parameters), TypeOnSet(parameters),
             TypeOnClear(parameters), TypeOnChange(parameters))
        EXCEPT !.indexGroup = pointer.indexGroup,
               !.indexOffset = pointer.indexOffset,
               !.size = pointer.size]

\* The body of TcSimpleBinding.constructor after super(): one read package, and
\* the default buffer (when there is one) as clear package
SimplePackages(b, pointer, parameters) ==
    [b EXCEPT
       !.type = parameters.name,
       !.readPackages = Append(@, [indexGroup |-> pointer.indexGroup,
                                   indexOffset |-> pointer.indexOffset,
                                   size |-> pointer.size]),
       !.clearPackages =
           IF parameters.defaultBuffer # None
           THEN Append(@, [indexGroup |-> b.indexGroup,
                           indexOffset |-> b.indexOffset,
                           data |-> parameters.defaultBuffer[1]])
           ELSE @]

\* TcSimpleBinding.constructor
SimpleBinding(path, kind, pointer, parameters, parentEmitter) ==
    SimplePackages(SymbolBinding(path, kind, pointer, parameters, parentEmitter),
                   pointer, parameters)

\* TcNumericBinding.constructor
NumericBinding(path, pointer, parameters, parentEmitter) ==
    [SimpleBinding(path, "numeric", pointer, parameters, parentEmitter)
        EXCEPT !.upperBorder = UpperBorder(parameters),
               !.lowerBorder = LowerBorder(parameters)]

\* TcStringBinding.constructor: this.__length = parameters.length (size - 1)
StringBinding(path, pointer, parameters, parentEmitter) ==
    [SimpleBinding(path, "string", pointer, parameters, parentEmitter)
        EXCEPT !.length = parameters.size - 1]

\* TcEnumBinding.constructor
EnumBinding(path, pointer, parameters, parentEmitter) ==
    [SimpleBinding(path, "enum", pointer, parameters, parentEmitter)
        EXCEPT !.fields = parameters.fields,
               !.buffers = parameters.buffers]

\* TcArrayBinding.constructor
ArrayBinding(path, pointer, parameters, dimension, parentEmitter) ==
    [SymbolBinding(path, "array", pointer, parameters, parentEmitter)
        EXCEPT !.startIndex = dimension.startIndex, !.length = dimension.length]

\* TcComplexBinding.__addChild / the first three lines of the namespace's
ComplexAddChild(b, key, index, child) ==
    [b EXCEPT !.children = Append(@, [key |-> key, index |-> index, path |-> child.path]),
              !.clearPackages = @ \o child.clearPackages,
              !.readPackages = @ \o child.readPackages]

RECURSIVE ComplexAddChildren(_, _)
\* __addChild for each created child, in the order of creation
ComplexAddChildren(b, kids) ==
    IF kids = <<>> THEN b
    ELSE ComplexAddChildren(
             ComplexAddChild(b, Head(kids).key, Head(kids).index, Head(kids).nodes[1]),
             Tail(kids))

\* The flag of the symbol alone
OwnReadOnly(parent, readOnly) == readOnly

\* TcSymbol.constructor: this.__readOnly = parent?.$readOnly || readOnly
SymbolReadOnly(parent, readOnly) == parent.readOnly \/ readOnly

\* The symbol with its binding: binding.readOnly is symbol.$readOnly
Symbol(binding, parent, readOnly) ==
    [binding EXCEPT !.readOnly = SymbolReadOnly(parent, readOnly)]

\* A composite symbol after __addChild of each created child, followed by the
\* symbols created below it
WithChildren(symbol, kids) ==
    <<ComplexAddChildren(symbol, kids)>> \o Flatten([k \in 1..Len(kids) |-> kids[k].nodes])

RECURSIVE Instance(_, _, _, _)
RECURSIVE ArraySymbol(_, _, _, _, _)

\* params.children.forEach of TcStructureSymbol.constructor
StructureChildren(params, this, pointer) ==
    [k \in 1..Len(params.children) |->
        [key |-> params.children[k].key, index |-> 0,
         nodes |-> Instance(params.children[k].type, Append(this.path, k), this,
                            [indexGroup |-> pointer.indexGroup,
                             indexOffset |-> pointer.indexOffset
                                                + params.children[k].type.offset,
                             size |-> params.children[k].type.size])]]

\* new TcStructureSymbol(path, parent, pointer, params): the symbol, then the
\* symbols below it (the result lists the created symbols, the new one first)
StructureSymbol(params, path, parent, pointer) ==
    WithChildren(Symbol(SymbolBinding(path, "struct", pointer, params, parent.path),
                        parent, params.readOnly),
                 StructureChildren(params,
                                   [path |-> path,
                                    readOnly |-> SymbolReadOnly(parent, params.readOnly)],
                                   pointer))

\* TcArraySymbol.__createChildren at the last dimension: one child per index, at
\* indexOffset + child.size * index
ArrayChildren(params, this, dimension) ==
    [k \in 1..dimension.length |->
        [key |-> "", index |-> dimension.startIndex + k - 1,
         nodes |-> Instance(params.child[1], Append(this.path, k), this,
                            [indexGroup |-> this.indexGroup,
                             indexOffset |-> this.indexOffset
                                 + params.child[1].size * (dimension.startIndex + k - 1),
                             size |-> params.child[1].size])]]

\* TcArraySymbol.__createProxyArrays: one array symbol of the next dimension per
\* segment
ProxyArrays(params, this, dimension, depth) ==
    [k \in 1..dimension.length |->
        [key |-> "", index |-> dimension.startIndex + k - 1,
         nodes |-> ArraySymbol(params, Append(this.path, k), this,
                               [indexGroup |-> this.indexGroup,
                                indexOffset |-> this.indexOffset
                                    + (this.size \div dimension.length) * (k - 1),
                                size |-> this.size \div dimension.length],
                               depth + 1)]]

\* TcArraySymbol.__createChildren for the symbol `this`
CreateChildren(params, this, depth) ==
    WithChildren(this,
                 IF depth + 1 = Len(params.dimensions)
                 THEN ArrayChildren(params, this, params.dimensions[depth + 1])
                 ELSE ProxyArrays(params, this, params.dimensions[depth + 1], depth))

\* new TcArraySymbol(path, parent, pointer, params, depth)
ArraySymbol(params, path, parent, pointer, depth) ==
    CreateChildren(params,
                   Symbol(ArrayBinding(path, pointer, params,
                                       params.dimensions[depth + 1], parent.path),
                          parent, params.readOnly),
                   depth)

\* The symbol of a boolean, numeric, string or enum type
SimpleSymbol(type, path, parent, pointer) ==
    IF type.kind = "numeric"
    THEN <<Symbol(NumericBinding(path, pointer, type, parent.path), parent, type.readOnly)>>
    ELSE IF type.kind = "enum"
    THEN <<Symbol(EnumBinding(path, pointer, type, parent.path), parent, type.readOnly)>>
    ELSE IF type.kind = "string"
    THEN <<Symbol(StringBinding(path, pointer, type, parent.path), parent, type.readOnly)>>
    ELSE <<Symbol(SimpleBinding(path, type.kind, pointer, type, parent.path),
                  parent, type.readOnly)>>

\* type.instance(path, parent, pointer): the symbol of the variant
Instance(type, path, parent, pointer) ==
    CASE type.kind = "struct" -> StructureSymbol(type, path, parent, pointer)
      [] type.kind = "array" -> ArraySymbol(type, path, parent, pointer, 0)
      [] OTHER -> SimpleSymbol(type, path, parent, pointer)

\* The offset / size part of the namespace's __addChild unless the group part threw
NsPointerStep(b, child) == IF b.threw THEN b ELSE NsRangeStep(b, child)

\* TcNamespaceBinding.__addChild with the child's packages and pointer
NamespaceAddChild(b, key, child) ==
    NsPointerStep(NsGroupStep(ComplexAddChild(b, key, 0, child), child), child)

\* new TcNamespaceSymbol(namespace, context, registry): not read-only, no parent
\* symbol, default event names, the symbol registry as parent emitter
NamespaceSymbol ==
    Binding(NsPath, "namespace", SymbolRegistry, "", "", "", "")

\* The raw symbol the controller reports (adsSymbolData)
SymbolInfo(name, type, indexOffset, size, attributes) ==
    [name |-> name, type |-> type, indexGroup |-> 1, indexOffset |-> indexOffset,
     size |-> size, attributes |-> attributes, offset |-> 0]

\* 'MAIN.x'.split('.')[1] for the symbol names of the model
SymbolName(name) ==
    CASE name = "MAIN.s1" -> "s1" [] name = "MAIN.s2" -> "s2" [] OTHER -> name

\* The map of the symbol registry (ns.map): the namespaces in the order they
\* were created, each with its name and its __children (key and path of the
\* symbol) and whether Object.defineProperty threw on it; ns.create tells how
\* create() ended and the raw symbols it worked on. A name is a sequence of
\* characters
MaxSegments == 3
NameSegments == {<<"M">>, <<"x">>, <<"y">>}

RECURSIVE JoinDot(_)
\* The name the controller reports for a symbol below namespaces and instances
JoinDot(segments) ==
    IF Len(segments) = 1 THEN segments[1]
    ELSE segments[1] \o <<".">> \o JoinDot(Tail(segments))

RawNames ==
    { JoinDot(segments) :
        segments \in UNION { [1..k -> NameSegments] : k \in 1..MaxSegments } }

RECURSIVE SplitFrom(_, _, _)
\* String.prototype.split('.'): every part between two dots, from character i on
SplitFrom(name, i, part) ==
    IF i > Len(name) THEN <<part>>
    ELSE IF name[i] = "." THEN <<part>> \o SplitFrom(name, i + 1, <<>>)
    ELSE SplitFrom(name, i + 1, Append(part, name[i]))

\* adsSymbolData.name.split('.')
Split(name) == SplitFrom(name, 1, <<>>)

\* The key of a property defined with the key `undefined`
Undefined == <<"undefined">>

\* const [namespace, symbolName] = ...: the k-th part, undefined when there is none
Destructured(parts, k) == IF k <= Len(parts) THEN parts[k] ELSE Undefined

\* The position of this.__map[namespace], 0 when there is none
NamespaceAt(map, namespace) ==
    IF \E k \in 1..Len(map) : map[k].name = namespace
    THEN CHOOSE k \in 1..Len(map) : map[k].name = namespace
    ELSE 0

\* if (!this.__map[namespace]) this.__map[namespace] = new TcNamespaceSymbol(...)
WithNamespace(map, namespace) ==
    IF NamespaceAt(map, namespace) # 0 THEN map
    ELSE Append(map, [name |-> namespace, children |-> <<>>, threw |-> FALSE])

\* TcNamespaceSymbol.__addChild: the child is pushed, then Object.defineProperty
\* throws a TypeError when the namespace has the property already
SymbolAddChild(namespace, key, path) ==
    [namespace EXCEPT
       !.children = Append(@, [key |-> key, path |-> path]),
       !.threw = @ \/ \E c \in 1..Len(namespace.children) :
                         namespace.children[c].key = key]

\* TcNamespaceSymbol.addChild(this.__map[namespace], { key : symbolName, symbol })
AddedTo(map, namespace, symbolName, path) ==
    [map EXCEPT ![NamespaceAt(map, namespace)] = SymbolAddChild(@, symbolName, path)]

\* One raw symbol in TcSymbolRegistry.create, from the parts of its name
AttachParts(map, parts, path) ==
    AddedTo(WithNamespace(map, Destructured(parts, 1)), Destructured(parts, 1),
            Destructured(parts, 2), path)

RECURSIVE AttachNames(_, _)
\* The loop of TcSymbolRegistry.create over the raw symbols of a registered type
AttachNames(map, names) ==
    IF names = <<>> THEN map
    ELSE AttachNames(AttachParts(map, Split(Head(names)), Head(names)), Tail(names))

\* Whether a callback of the clones threw: Promise.all then rejects create()
CreateThrew(map) == \E k \in 1..Len(map) : map[k].threw

\* symbols.create() on an empty map, over two raw symbols of different names
SrCreate ==
    /\ ns.create.pc \in {"idle", "destroyed"}
    /\ \E first \in RawNames, second \in RawNames :
          /\ first # second
          /\ ns' = [ns EXCEPT
                !.map = AttachNames(<<>>, <<first, second>>),
                !.create = [pc |-> IF CreateThrew(AttachNames(<<>>, <<first, second>>))
                                   THEN "failed" ELSE "created",
                            symbols |-> <<first, second>>]]
    /\ UNCHANGED <<com, reg, sym, sub, ctx>>

\* symbols.destroy(): this.__map = {}
SrDestroy ==
    /\ ns.create.pc \in {"created", "failed"}
    /\ ns' = [ns EXCEPT !.map = <<>>, !.create = [pc |-> "destroyed", symbols |-> <<>>]]
    /\ UNCHANGED <<com, reg, sym, sub, ctx>>

\* type.clone(adsSymbolData) of a raw symbol: the new type, and whether the clone
\* has to convert a new default (its promise then settles later)
PendingClone(d, type) ==
    [data |-> d, newType |-> Clone(type, d),
     late |-> DefaultValue(Mutate(type, d)) # DefaultValue(type)]

\* The order the clone promises settle in
Settled(clones) ==
    SelectSeq(clones, LAMBDA q : ~q.late) \o SelectSeq(clones, LAMBDA q : q.late)

\* The raw symbols whose type is registered (this.__context.types.has)
KnownSymbols(symbols, types) == SelectSeq(symbols, LAMBDA d : d.type \in DOMAIN types)

\* The clones of TcSymbolRegistry.create in the order they settle
SettledClones(symbols, types) ==
    Settled([k \in 1..Len(symbols) |-> PendingClone(symbols[k], types[symbols[k].type])])

\* TcNamespaceSymbol.addChild of the created symbol (the first of `created`)
Attached(nodes, key, created) ==
    <<NamespaceAddChild(nodes[1], key, created[1])>> \o Tail(nodes) \o created

RECURSIVE AttachSymbols(_, _, _)
\* The .then of each clone in TcSymbolRegistry.create: instance and addChild
AttachSymbols(nodes, clones, position) ==
    IF clones = <<>> THEN nodes
    ELSE IF Head(clones).newType = None
    THEN AttachSymbols(nodes, Tail(clones), position)
    ELSE AttachSymbols(
             Attached(nodes, SymbolName(Head(clones).data.name),
                      Instance(Head(clones).newType[1], <<position>>,
                               [path |-> NsPath, readOnly |-> nodes[1].readOnly],
                               Head(clones).data)),
             Tail(clones), position + 1)

\* The created symbols by their path
ByPath(nodes) ==
    [q \in {nodes[k].path : k \in 1..Len(nodes)} |->
        nodes[CHOOSE k \in 1..Len(nodes) : nodes[k].path = q]]

\* TcSymbolRegistry.create for the namespace MAIN: every created symbol by its path
CreateSymbols(symbols, types) ==
    ByPath(AttachSymbols(<<NamespaceSymbol>>,
                         SettledClones(KnownSymbols(symbols, types), types), 1))

\* The result of a rejected and of a fulfilled conversion; `depth` counts the
\* promises a rejection has passed through (a shallower rejection settles first)
Rejected(err, depth) == [err |-> err, depth |-> depth, out |-> <<>>]
Fulfilled(out) == [err |-> "", depth |-> 0, out |-> out]

\* TcBinding.checkInput
CheckInputBase(b, valid) ==
    IF ~valid[b.path] THEN "TcBindingIsInvalidException"
    ELSE IF b.readOnly THEN "TcBindingReadOnlyException"
    ELSE ""

\* Only the upper border is compared
OutOfRangeAbove(b, value) == value.n > b.upperBorder

\* TcNumericBinding.checkInput: value > this.__upperBorder || value < this.__lowerBorder
OutOfRange(b, value) == value.n > b.upperBorder \/ value.n < b.lowerBorder

\* checkInput of the variant of b
CheckInput(b, valid, value) ==
    LET base == CheckInputBase(b, valid)
    IN  IF base # "" THEN base
        ELSE CASE b.kind = "boolean" ->
                    IF value.t # "boolean" THEN "TcBindingInvalidTypeException" ELSE ""
               [] b.kind = "numeric" ->
                    IF value.t # "number" THEN "TcBindingInvalidTypeException"
                    ELSE IF OutOfRange(b, value)
                    THEN "TcBindingOutOfRangeException" ELSE ""
               [] b.kind = "string" ->
                    IF value.t # "string" THEN "TcBindingInvalidTypeException"
                    ELSE IF Len(value.s) > b.length
                    THEN "TcBindingOutOfRangeException" ELSE ""
               [] b.kind = "enum" ->
                    IF value.t # "string" THEN "TcBindingInvalidTypeException" ELSE ""
               [] b.kind = "array" ->
                    IF value.t # "array" THEN "TcBindingInvalidTypeException"
                    ELSE IF Len(value.s) > b.length
                    THEN "TcBindingOutOfRangeException" ELSE ""
               [] OTHER ->
                    IF value.t # "object" THEN "TcBindingInvalidTypeException" ELSE ""

\* this.__childrenBindings[key] of a struct or namespace: the path, or none
ChildByKey(b, key) ==
    LET hits == SelectSeq(b.children, LAMBDA c : c.key = key)
    IN  IF hits = <<>> THEN None ELSE Some(hits[Len(hits)].path)

\* The caller's index taken as the key
ChildByCallerIndex(b, index) ==
    LET hits == SelectSeq(b.children, LAMBDA c : c.index = index - b.startIndex)
    IN  IF hits = <<>> THEN None ELSE Some(hits[Len(hits)].path)

\* this.__childrenBindings[index] of an array
ChildByIndex(b, index) ==
    LET hits == SelectSeq(b.children, LAMBDA c : c.index = index)
    IN  IF hits = <<>> THEN None ELSE Some(hits[Len(hits)].path)

\* The property names every object inherits from Object.prototype (the model
\* writes one of them)
InheritedKeys == {"constructor"}

\* One turn of the for loop of TcStructureBinding.toRaw / TcNamespaceBinding.toRaw
\* up to the call of child.toRaw: the exception it throws, or none. The log line
\* reads memberValue.key (a TypeError on null); this.__childrenBindings[memberName]
\* finds the bound children and, the map being a plain object, the inherited
\* properties, which have no toRaw (a TypeError)
MemberFault(b, entry) ==
    IF entry.v.t = "null" THEN "TypeError"
    ELSE IF SelectSeq(b.children, LAMBDA c : c.key = entry.k) # <<>> THEN ""
    ELSE IF entry.k \in InheritedKeys THEN "TypeError"
    ELSE "TcBindingOutOfRangeException"

\* A value that is no Buffer, as the data of a package
NotABuffer == <<>>

\* this.__buffers[value] of TcEnumBinding.toRaw: the buffer stored under the name,
\* or what the plain object inherits under it, or undefined
EnumBuffer(b, name) ==
    IF SelectSeq(b.buffers, LAMBDA e : e.key = name) # <<>>
    THEN Some(Head(SelectSeq(b.buffers, LAMBDA e : e.key = name)).data)
    ELSE IF \E key \in InheritedKeys : Chars(key) = name THEN Some(NotABuffer)
    ELSE None

\* TcEnumBinding.toRaw after the checks of the input
EnumToRaw(b, value) ==
    IF EnumBuffer(b, value.s) = None THEN Rejected("TcBindingOutOfRangeException", 0)
    ELSE Fulfilled(<<[indexGroup |-> b.indexGroup, indexOffset |-> b.indexOffset,
                      data |-> EnumBuffer(b, value.s)[1]]>>)

\* Promise.all over the conversions of the children: the first rejection to settle
\* (the shallowest, the earliest among equals), else every result in order
PromiseAll(results) ==
    LET failed == {k \in 1..Len(results) : results[k].err # ""}
    IN  IF failed = {} THEN Fulfilled([k \in 1..Len(results) |-> results[k].out])
        ELSE LET d == Min({results[k].depth : k \in failed})
                 k == Min({j \in failed : results[j].depth = d})
             IN  Rejected(results[k].err, d + 1)

RECURSIVE ToRaw(_, _, _, _)
\* binding.toRaw(value): the data packages of the value, or the exception
ToRaw(tree, valid, path, value) ==
    LET b == tree[path]
        err == CheckInput(b, valid, value)
    IN  IF err # "" THEN Rejected(err, 0)
        ELSE IF b.kind = "enum" THEN EnumToRaw(b, value)
        ELSE IF b.kind \in {"boolean", "numeric", "string"}
        THEN Fulfilled(<<[indexGroup |-> b.indexGroup, indexOffset |-> b.indexOffset,
                          data |-> ConvertToRaw(b, IF b.kind = "string" THEN value
                                                   ELSE value.n)]>>)
        ELSE LET child(k) == IF b.kind = "array"
                             THEN ChildByIndex(b, k - 1 + b.startIndex)
                             ELSE ChildByKey(b, value.s[k].k)
                 member(k) == IF b.kind = "array" THEN value.s[k] ELSE value.s[k].v
                 fault(k) == IF b.kind = "array"
                             THEN IF child(k) = None
                                  THEN "TcBindingOutOfRangeException" ELSE ""
                             ELSE MemberFault(b, value.s[k])
             IN  IF \E k \in 1..Len(value.s) : fault(k) # ""
                 THEN Rejected(fault(Min({k \in 1..Len(value.s) : fault(k) # ""})), 0)
                 ELSE LET all == PromiseAll([k \in 1..Len(value.s) |->
                                     ToRaw(tree, valid, child(k)[1], member(k))])
                      IN  IF all.err # "" THEN all ELSE Fulfilled(Flatten(all.out))

\* Object.entries(this.__childrenBindings): integer keys ascending first, then the
\* other keys in the order they were added
ChildrenEntries(b) ==
    IF b.kind # "array" THEN b.children
    ELSE LET isIndex(c) == c.index >= 0
             indexed == SelectSeq(b.children, isIndex)
             ix == {indexed[k].index : k \in 1..Len(indexed)}
             rank(i) == Cardinality({j \in ix : j < i}) + 1
             sorted == [k \in 1..Len(indexed) |->
                          LET i == CHOOSE i \in ix : rank(i) = k
                          IN  indexed[CHOOSE j \in 1..Len(indexed) : indexed[j].index = i]]
         IN  sorted \o SelectSeq(b.children, LAMBDA c : ~isIndex(c))

RECURSIVE PackagesBefore(_, _, _)
\* `start` of the fromRaw loops: the read packages of the entries before the k-th
PackagesBefore(tree, entries, k) ==
    IF k = 1 THEN 0
    ELSE PackagesBefore(tree, entries, k - 1) + Len(tree[entries[k - 1].path].readPackages)

RECURSIVE FromRaw(_, _, _, _)
\* binding.fromRaw(dataPackages): the value, or the exception
FromRaw(tree, valid, path, dataPackages) ==
    LET b == tree[path]
    IN  IF ~valid[path] THEN Rejected("TcBindingIsInvalidException", 0)
        ELSE IF b.kind \in {"boolean", "numeric", "string", "enum"}
        THEN IF Len(dataPackages) > 1 THEN Rejected("TcBindingOutOfRangeException", 0)
             ELSE IF b.kind = "enum"
             THEN Fulfilled(VStr(Chars(b.type) \o Chars(".")
                                   \o EnumFromRaw(dataPackages[1].data).name))
             ELSE IF b.kind = "string"
             THEN Fulfilled(VStr(StringFromRaw(dataPackages[1].data)))
             ELSE IF b.kind = "boolean"
             THEN Fulfilled(VBool(ConvertFromRaw(b.kind, dataPackages[1].data) = 1))
             ELSE Fulfilled(VNum(ConvertFromRaw(b.kind, dataPackages[1].data)))
        ELSE LET entries == ChildrenEntries(b)
                 part(k) == LET start == PackagesBefore(tree, entries, k)
                                length == Len(tree[entries[k].path].readPackages)
                            IN  Slice(dataPackages, start, start + length)
                 all == PromiseAll([k \in 1..Len(entries) |->
                            FromRaw(tree, valid, entries[k].path, part(k))])
             IN  IF all.err # "" THEN all
                 ELSE IF b.kind = "array"
                 THEN Fulfilled(VArr([j \in 1..Len(entries) |->
                        all.out[CHOOSE k \in 1..Len(entries) :
                                    entries[k].index - b.startIndex = j - 1]]))
                 ELSE Fulfilled(VObj([k \in 1..Len(entries) |->
                                        [k |-> entries[k].key, v |-> all.out[k]]]))

\* The bytes of the controller at a pointer
MemoryAt(mem, pointer) ==
    [i \in 1..pointer.size |-> mem[pointer.indexOffset + i - 1]]

RECURSIVE MemoryWrite(_, _)
\* The controller memory after the data packages were written, one after another
MemoryWrite(mem, dataPackages) ==
    IF dataPackages = <<>> THEN mem
    ELSE LET d == Head(dataPackages)
             written == [o \in DOMAIN mem |->
                            IF o >= d.indexOffset /\ o < d.indexOffset + Len(d.data)
                            THEN d.data[o - d.indexOffset + 1] ELSE mem[o]]
         IN  MemoryWrite(written, Tail(dataPackages))

\* The transport calls of TcCom.write / TcCom.read: one per chunk of __splitData
TransportCalls(op, items) ==
    LET split == SplitData(items)
    IN  [k \in 1..Len(split) |-> [op |-> op, items |-> split[k]]]

\* What an operation on a binding did: its result or exception, the transport
\* calls it made and the controller memory it left
Outcome(err, value, sent, mem) ==
    [err |-> err, value |-> value, sent |-> sent, mem |-> mem]

NoValue == VObj(<<>>)

\* TcBinding.read
BindingRead(tree, valid, mem, path) ==
    IF ~valid[path] THEN Outcome("TcBindingIsInvalidException", NoValue, <<>>, mem)
    ELSE LET pointers == tree[path].readPackages
             dataPackages == [k \in 1..Len(pointers) |->
                                 [indexGroup |-> pointers[k].indexGroup,
                                  indexOffset |-> pointers[k].indexOffset,
                                  data |-> MemoryAt(mem, pointers[k])]]
             r == FromRaw(tree, valid, path, dataPackages)
             sent == TransportCalls("read", pointers)
         IN  IF r.err # "" THEN Outcome(r.err, NoValue, sent, mem)
             ELSE Outcome("", r.out, sent, mem)

\* TcCom.write: the client fails on a package whose data is no Buffer
Unwritable(dataPackages) ==
    \E k \in 1..Len(dataPackages) : dataPackages[k].data = NotABuffer

\* TcBinding.write
BindingWrite(tree, valid, mem, path, value) ==
    IF ~valid[path] THEN Outcome("TcBindingIsInvalidException", NoValue, <<>>, mem)
    ELSE LET r == ToRaw(tree, valid, path, value)
         IN  IF r.err # "" THEN Outcome(r.err, NoValue, <<>>, mem)
             ELSE IF Unwritable(r.out)
             THEN Outcome("TcComDataWriteException", NoValue,
                          TransportCalls("write", r.out), mem)
             ELSE Outcome("", value, TransportCalls("write", r.out),
                          MemoryWrite(mem, r.out))

\* TcBinding.clear
BindingClear(tree, valid, mem, path) ==
    IF ~valid[path] THEN Outcome("TcBindingIsInvalidException", NoValue, <<>>, mem)
    ELSE IF tree[path].readOnly
    THEN Outcome("TcBindingReadOnlyException", NoValue, <<>>, mem)
    ELSE Outcome("", NoValue, TransportCalls("write", tree[path].clearPackages),
                 MemoryWrite(mem, tree[path].clearPackages))

\* The parent emitter of an emitter: the binding's, the context for the symbol
\* registry, none for the context
ParentEmitter(tree, emitter) ==
    IF emitter = Context THEN None
    ELSE IF emitter = SymbolRegistry THEN Some(Context)
    ELSE Some(tree[emitter].parent)

\* Whether a listener of the emitter for the event stops the propagation
Stops(listeners, emitter, eventName) ==
    \E l \in listeners : l.emitter = emitter /\ l.event = eventName /\ l.stop

\* What an emitter emitted, and whether one of its listeners stopped the propagation
Emitted(emitter, eventName, stopped) ==
    [emitter |-> emitter, event |-> eventName, stopped |-> stopped]

\* The propagation test without e.propagationStopped
PropagatesAlways(parent, stopped) == parent # None

\* this.__parentEmitter && !e.propagationStopped
Propagates(parent, stopped) == parent # None /\ ~stopped

RECURSIVE Emit(_, _, _, _)
\* TcEmitter.emit: the emitters that emit the event, in order
Emit(tree, listeners, emitter, eventName) ==
    <<Emitted(emitter, eventName, Stops(listeners, emitter, eventName))>>
        \o IF Propagates(ParentEmitter(tree, emitter),
                         Stops(listeners, emitter, eventName))
           THEN Emit(tree, listeners, ParentEmitter(tree, emitter)[1], eventName)
           ELSE <<>>

\* An $each that visits no child
InvalidateNone(tree, st, children) == st

RECURSIVE Invalidate(_, _, _)
RECURSIVE InvalidateEach(_, _, _)

\* TcSymbol.__invalidate: TcBinding.invalidate, then the $onInvalidated callback
\* if there is one. st holds the validity flags, the callbacks called so far,
\* every step taken so far in order, and whether a callback threw
InvalidateSelf(st, path) ==
    [valid |-> [st.valid EXCEPT ![path] = FALSE],
     callbacks |-> st.callbacks,
     called |-> IF st.callbacks[path] # "none" THEN Append(st.called, path)
                ELSE st.called,
     order |-> Append(st.order, [step |-> "binding", path |-> path])
                  \o IF st.callbacks[path] # "none"
                     THEN <<[step |-> "callback", path |-> path]>> ELSE <<>>,
     threw |-> st.callbacks[path] = "throws"]

\* The children after the symbol itself
InvalidateBelow(tree, self, path) ==
    IF self.threw THEN self ELSE InvalidateEach(tree, self, tree[path].children)

\* A composite that invalidates itself before its children
InvalidateSelfFirst(tree, st, path) ==
    InvalidateBelow(tree, InvalidateSelf(st, path), path)

\* super.__invalidate() once $each returned: not reached when a callback threw
InvalidateAfter(below, path) ==
    IF below.threw THEN below ELSE InvalidateSelf(below, path)

\* this.$each(symbol => TcSymbol.invalidate(symbol)): a throwing callback ends it
InvalidateEach(tree, st, children) ==
    IF children = <<>> \/ st.threw THEN st
    ELSE InvalidateEach(tree, Invalidate(tree, st, Head(children).path), Tail(children))

\* symbol.__invalidate(): the children first for a namespace, struct or array,
\* then super.__invalidate()
Invalidate(tree, st, path) ==
    InvalidateAfter(InvalidateEach(tree, st, tree[path].children), path)

-----------------------------------------------------------------------------
(* The symbols of a namespace and the operations on them                   *)

\* Attributes of the model
ReadOnlyAttr == <<[name |-> "ReadOnly", value |-> ""]>>
DefaultTrueAttr == <<[name |-> "Default", value |-> "true"]>>
AliasAttr == <<[name |-> "OnSet", value |-> "written"],
               [name |-> "OnGet", value |-> "fetched"],
               [name |-> "OnClear", value |-> "reset"],
               [name |-> "OnChange", value |-> "moved"]>>

\* The TcType objects by address (reg.heap): an object holds its fields, the
\* child of an array and the types of a struct's children are addresses; reg.from
\* is the object each one was cloned or extended from (0: created from a raw
\* descriptor), reg.cloned the last call of clone or extend with the address it
\* returned (0: undefined)
MaxTypes == 3

\* The mutators of a symbol or of a struct member: attributes and an offset
MutatorAttributes ==
    {<<>>, ReadOnlyAttr, IgnoredAttr, DefaultAttr("1"), LowerBorderAttr("1"),
     UpperBorderAttr("2"), AliasAttr}
Mutators ==
    { TypeInfo("E", "INT", ADST_INT16, 2, offset, attributes, <<>>) :
        offset \in {0, 2}, attributes \in MutatorAttributes }

\* Whether a mutator declares a default
DeclaresDefault(mutator) ==
    \E k \in 1..Len(mutator.attributes) : AttrKey(mutator.attributes[k].name) = "default"

\* new TcXType(context, this, ...): the copy constructor makes a new object that
\* takes the fields of `this` over (the children of a struct, the child and the
\* dimensions of an array by reference)
Allocate(heap, this) == Append(heap, heap[this])

\* A static create that returned an object: it is new
Allocated(heap, created) == IF created = None THEN heap ELSE Append(heap, created[1])

\* type.mutate(mutator) on the object of a mutator that writes to `this`
MutateThis(heap, this, type, mutator) == [heap EXCEPT ![this] = Mutate(@, mutator)]

\* type.mutate(mutator) in __clone: __getParameter and the offset write to the
\* fields of `type`, the new object
MutateAt(heap, this, type, mutator) == [heap EXCEPT ![type] = Mutate(@, mutator)]

\* type.defaultBuffer = await this.context.COM.toRaw(type.name, type.defaultValue)
\* in __clone, when the clone is not ignored and its default differs from this's
DefaultBufferAt(heap, this, type) ==
    IF ~heap[type].ignored /\ DefaultValue(heap[type]) # DefaultValue(heap[this])
    THEN [heap EXCEPT ![type] = WithDefaultBuffer(@)]
    ELSE heap

\* clone(mutator) on the object at `this`: the heap after the call
CloneAt(heap, this, mutator) ==
    DefaultBufferAt(MutateAt(Allocate(heap, this), this, Len(heap) + 1, mutator),
                    this, Len(heap) + 1)

\* extend(adsTypeData) on the object at `this`: the heap after the call
ExtendAt(heap, this, adsTypeData) ==
    IF adsTypeData.adsDataType # heap[this].adst THEN heap
    ELSE IF heap[this].kind = "numeric" /\ adsTypeData.enumInfo # None
    THEN Allocated(heap, CreateEnum(adsTypeData))
    ELSE IF adsTypeData.arrayData # <<>>
    THEN Allocated(heap, CreateType("array", adsTypeData, <<>>, Some(this),
                                    adsTypeData.arrayData))
    ELSE CloneAt(heap, this, adsTypeData)

\* What the call returned: the address of the new object, 0 for undefined
Returned(before, after) ==
    IF Len(after) > Len(before) /\ ~after[Len(after)].ignored THEN Len(after) ELSE 0

\* The registry's calls of the static create: BOOL, INT with attributes, and a
\* struct whose member m1 is a registered type
HeapCreate ==
    /\ Len(reg.heap) < MaxTypes
    /\ \E attributes \in {<<>>, DefaultAttr("3")},
          kind \in {"boolean", "numeric", "struct"},
          member \in 1..(Len(reg.heap) + 1) :
          /\ IF kind = "struct" THEN member <= Len(reg.heap) /\ attributes = <<>>
             ELSE member = 1
          /\ reg' = [reg EXCEPT
                !.heap = Allocated(@,
                    CASE kind = "boolean" ->
                           CreateType(kind, TypeInfo("BOOL", "", ADST_BIT, 1, 0, <<>>, <<>>),
                                      <<>>, None, <<>>)
                      [] kind = "numeric" ->
                           CreateType(kind, TypeInfo("INT", "", ADST_INT16, 2, 0,
                                                     attributes, <<>>),
                                      <<>>, None, <<>>)
                      [] OTHER ->
                           CreateType(kind, TypeInfo("Y", "", ADST_BIGTYPE, 2, 0, <<>>, <<>>),
                                      <<[key |-> "m1", type |-> member]>>, None, <<>>)),
                !.from = Append(@, 0)]
    /\ UNCHANGED <<com, ns, sym, sub, ctx>>

\* type.clone(mutator) on a type, as the registries call it for a symbol and for
\* a member of a struct
HeapClone ==
    /\ Len(reg.heap) < MaxTypes
    /\ \E this \in 1..Len(reg.heap), mutator \in Mutators :
          /\ reg.heap[this].kind = "enum" => ~DeclaresDefault(mutator)
          /\ reg' = [reg EXCEPT
                !.heap = CloneAt(@, this, mutator),
                !.from = Append(@, this),
                !.cloned = [this |-> this,
                            out |-> Returned(reg.heap, CloneAt(reg.heap, this, mutator))]]
    /\ UNCHANGED <<com, ns, sym, sub, ctx>>

\* type.extend(adsTypeData) on a type, as the type registry calls it for a
\* descriptor that names the type as its parent
HeapExtend ==
    /\ Len(reg.heap) < MaxTypes
    /\ \E this \in 1..Len(reg.heap), adsTypeData \in RawExtensions :
          /\ Len(adsTypeData.attributes) = 0 \/ adsTypeData.attributes = DefaultAttr("1")
          /\ reg.heap[this].kind = "enum" => ~DeclaresDefault(adsTypeData)
          /\ reg' = [reg EXCEPT
                !.heap = ExtendAt(@, this, adsTypeData),
                !.from = IF Len(ExtendAt(reg.heap, this, adsTypeData)) > Len(reg.heap)
                         THEN Append(@, this) ELSE @,
                !.cloned = [this |-> this,
                            out |-> Returned(reg.heap,
                                             ExtendAt(reg.heap, this, adsTypeData))]]
    /\ UNCHANGED <<com, ns, sym, sub, ctx>>

\* The raw types of the model: BOOL, INT, STRING, the enumeration E (A, B) over
\* INT, the struct ST { a : BOOL; n : INT }, GRID = ARRAY [i..i+1, i..i+1] OF BOOL,
\* ARRAY [i..i+1] OF BOOL and the struct NEST { a : BOOL; arr : ARRAY ... }
BoolInfo == TypeInfo("BOOL", "", ADST_BIT, 1, 0, <<>>, <<>>)
IntInfo == TypeInfo("INT", "", ADST_INT16, 2, 0, <<>>, <<>>)
StringInfo == TypeInfo("STRING", "", ADST_STRING, 5, 0, <<>>, <<>>)
EnumInfo ==
    [TypeInfo("E", "INT", ADST_INT16, 2, 0, <<>>, <<>>)
        EXCEPT !.enumInfo = Some(EnumMembers)]
ArrayInfo(startIndex) ==
    [TypeInfo("ARRAY OF BOOL", "BOOL", ADST_BIT, 2, 0, <<>>, <<>>)
        EXCEPT !.arrayData = <<[startIndex |-> startIndex, length |-> 2]>>]
GridInfo(startIndex) ==
    [TypeInfo("GRID", "BOOL", ADST_BIT, 4, 0, <<>>, <<>>)
        EXCEPT !.arrayData = <<[startIndex |-> startIndex, length |-> 2],
                               [startIndex |-> startIndex, length |-> 2]>>]
StructInfo(aAttributes, nAttributes) ==
    TypeInfo("ST", "", ADST_BIGTYPE, 3, 0, <<>>,
             << TypeInfo("a", "BOOL", ADST_BIT, 1, 0, aAttributes, <<>>),
                TypeInfo("n", "INT", ADST_INT16, 2, 1, nAttributes, <<>>) >>)
NestInfo(aAttributes) ==
    TypeInfo("NEST", "", ADST_BIGTYPE, 3, 0, <<>>,
             << TypeInfo("a", "BOOL", ADST_BIT, 1, 0, aAttributes, <<>>),
                TypeInfo("arr", "ARRAY OF BOOL", ADST_BIT, 2, 1, <<>>, <<>>) >>)

\* One turn of the loop of __adsTypeProcessChildren for a child whose type is
\* registered: the clone under the child's attributes is a member, or the child
\* is spliced out of subItems when the clone is ignored
StructChild(subItems, i, result, extended) ==
    IF extended # None
    THEN [subItems |-> subItems,
          result |-> Append(result, [key |-> subItems[i + 1].name, type |-> extended[1]])]
    ELSE [subItems |-> SubSeq(subItems, 1, i) \o SubSeq(subItems, i + 2, Len(subItems)),
          result |-> result]

RECURSIVE StructChildrenFrom(_, _, _)
\* for (let i = 0; i < adsTypeData.subItems?.length; i++) from turn i on
StructChildrenFrom(loop, types, i) ==
    IF ~(i < Len(loop.subItems)) THEN loop.result
    ELSE StructChildrenFrom(
             StructChild(loop.subItems, i, loop.result,
                         Clone(types[loop.subItems[i + 1].type], loop.subItems[i + 1])),
             types, i + 1)

\* The members of a struct whose children's types are all registered
\* (__adsTypeProcessChildren)
StructChildren(adsTypeData, types) ==
    StructChildrenFrom([subItems |-> adsTypeData.subItems, result |-> <<>>], types, 0)

\* The entries of a map of optional types that hold a type
Registered(all) == [name \in {n \in DOMAIN all : all[n] # None} |-> all[name][1]]

\* The type registry built from these raw types: a struct is registered unless
\* it is left without members
TypeMap(aAttributes, nAttributes, startIndex) ==
    LET bool == Classify(BoolInfo, <<>>)[1]
        int == Classify(IntInfo, <<>>)[1]
        array == Extend(bool, ArrayInfo(startIndex))[1]
        simple == [name \in {"BOOL", "INT", "STRING", "E", "ARRAY OF BOOL", "GRID"} |->
                      CASE name = "BOOL" -> bool [] name = "INT" -> int
                        [] name = "GRID" -> Extend(bool, GridInfo(startIndex))[1]
                        [] name = "E" -> Extend(int, EnumInfo)[1]
                        [] name = "STRING" -> Classify(StringInfo, <<>>)[1]
                        [] OTHER -> array]
        st == StructInfo(aAttributes, nAttributes)
        nest == NestInfo(aAttributes)
    IN  Registered(
            [name \in {"BOOL", "INT", "STRING", "E", "ARRAY OF BOOL", "GRID", "ST",
                       "NEST"} |->
                CASE name = "ST" -> Classify(st, StructChildren(st, simple))
                  [] name = "NEST" -> Classify(nest, StructChildren(nest, simple))
                  [] OTHER -> Some(simple[name])])

\* The size the controller reports for a symbol of the type
SizeOf(type) == CASE type = "BOOL" -> 1 [] type \in {"INT", "E", "ARRAY OF BOOL"} -> 2
                  [] type = "STRING" -> 5 [] type = "GRID" -> 4 [] OTHER -> 3

\* The symbol catalogue: MAIN.s1 of any type at offset 2, and perhaps MAIN.s2 : BOOL
MaxOffset == 9
SymbolCatalogue(type1, attributes1, second, attributes2) ==
    <<SymbolInfo("MAIN.s1", type1, 2, SizeOf(type1), attributes1)>>
        \o IF second THEN <<SymbolInfo("MAIN.s2", "BOOL", 8, 1, attributes2)>> ELSE <<>>

RECURSIVE Values(_, _)
RECURSIVE ObjectEntries(_, _)
RECURSIVE ArrayElements(_, _, _)

\* The entries an object may have for the given children: any part of the keys
ObjectEntries(tree, children) ==
    IF children = <<>> THEN {<<>>}
    ELSE {<<>> \o rest : rest \in ObjectEntries(tree, Tail(children))}
         \cup {<<[k |-> Head(children).key, v |-> v]>> \o rest :
                  v \in Values(tree, Head(children).path),
                  rest \in ObjectEntries(tree, Tail(children))}

\* The arrays of m elements for the first m children
ArrayElements(tree, children, m) ==
    IF m = 0 THEN {<<>>}
    ELSE {Append(front, v) : front \in ArrayElements(tree, children, m - 1),
                             v \in Values(tree, children[m].path)}

\* The values a caller passes to $set of the symbol at `path`: true and false, 0
\* and 1, the arrays of up to `length` such elements, the objects with any part of
\* the keys
Values(tree, path) ==
    LET b == tree[path]
    IN  CASE b.kind = "boolean" -> {VBool(TRUE), VBool(FALSE)}
          [] b.kind = "numeric" -> {VNum(0), VNum(1)}
          [] b.kind = "string" -> {VStr(<<>>), VStr(Chars("a"))}
          [] b.kind = "enum" -> {VStr(Chars("E.A")), VStr(Chars("E.B"))}
          [] b.kind = "array" ->
                UNION { {VArr(e) : e \in ArrayElements(tree, b.children, m)} :
                           m \in 0..Len(b.children) }
          [] OTHER -> {VObj(e) : e \in ObjectEntries(tree, b.children)}

RECURSIVE FullValue(_, _)
RECURSIVE ShapeValues(_, _)
\* The value that sets every leaf below the symbol at `path`: true and 1
FullValue(tree, path) ==
    CASE tree[path].kind = "boolean" -> VBool(TRUE)
      [] tree[path].kind = "numeric" -> VNum(1)
      [] tree[path].kind = "string" -> VStr(Chars("a"))
      [] tree[path].kind = "enum" -> VStr(Chars("E.B"))
      [] tree[path].kind = "array" ->
            VArr([k \in 1..Len(tree[path].children) |->
                     FullValue(tree, tree[path].children[k].path)])
      [] OTHER ->
            VObj([k \in 1..Len(tree[path].children) |->
                     [k |-> tree[path].children[k].key,
                      v |-> FullValue(tree, tree[path].children[k].path)]])

\* No symbols: before TcSymbolRegistry.create (declared and types keep the symbol
\* catalogue and the registered types of the symbols they were created from,
\* members the declared members of the struct ST where their attributes vary)
NoOperation ==
    [op |-> "none", path |-> <<>>, input |-> NoValue, err |-> "", value |-> NoValue,
     sent |-> <<>>, before |-> <<>>, emitted |-> <<>>, called |-> <<>>,
     order |-> <<>>]
SymIdle ==
    [tree |-> <<>>, valid |-> <<>>, mem |-> <<>>, callbacks |-> <<>>, watch |-> "",
     listeners |-> {}, last |-> NoOperation, declared |-> <<>>, types |-> <<>>,
     members |-> <<>>, flights |-> <<>>]

\* The symbols after TcSymbolRegistry.create: all valid, no callback, no listener
SymCreated(symbols, types, byte, watch) ==
    LET tree == CreateSymbols(symbols, types)
    IN  [tree |-> tree, valid |-> [q \in DOMAIN tree |-> TRUE],
         mem |-> [o \in 0..MaxOffset |-> byte],
         callbacks |-> [q \in DOMAIN tree |-> "none"], watch |-> watch,
         listeners |-> {}, last |-> NoOperation, declared |-> symbols,
         types |-> [n \in {symbols[k].type : k \in 1..Len(symbols)} \cap DOMAIN types
                       |-> types[n]],
         members |-> <<>>, flights |-> <<>>]

\* What the last call did
Operation(op, path, input, r, emitted) ==
    [op |-> op, path |-> path, input |-> input, err |-> r.err, value |-> r.value,
     sent |-> r.sent, before |-> sym.mem, emitted |-> emitted, called |-> <<>>,
     order |-> <<>>]

\* symbol.$get: read, then emitGet
SymGet ==
    \E path \in DOMAIN sym.tree :
        LET r == BindingRead(sym.tree, sym.valid, sym.mem, path)
            emitted == IF r.err = ""
                       THEN Emit(sym.tree, sym.listeners, path, sym.tree[path].onGet)
                       ELSE <<>>
        IN  /\ sym' = [sym EXCEPT !.last = Operation("get", path, NoValue, r, emitted)]
            /\ UNCHANGED <<com, ns, reg, sub, ctx>>

\* symbol.$set(value) with the value drawn from values[path]: write, then emitSet
SymSetFrom(values) ==
    \E path \in DOMAIN sym.tree : \E value \in values[path] :
        LET r == BindingWrite(sym.tree, sym.valid, sym.mem, path, value)
            emitted == IF r.err = ""
                       THEN Emit(sym.tree, sym.listeners, path, sym.tree[path].onSet)
                       ELSE <<>>
        IN  /\ sym' = [sym EXCEPT !.last = Operation("set", path, value, r, emitted),
                                  !.mem = r.mem]
            /\ UNCHANGED <<com, ns, reg, sub, ctx>>

\* $set with any value of the symbol's shape, whole or partial
AnyValue == [path \in DOMAIN sym.tree |-> Values(sym.tree, path)]
SymSet == SymSetFrom(AnyValue)

\* $set with the one whole value that sets every leaf below the symbol
WholeValue == [path \in DOMAIN sym.tree |-> {FullValue(sym.tree, path)}]
SymSetWhole == SymSetFrom(WholeValue)

\* The values a caller passes to $set of a leaf: of every JavaScript type, inside
\* and outside the range of the leaf
LeafValues(kind) ==
    CASE kind = "boolean" -> {VBool(TRUE), VBool(FALSE), VNum(1)}
      [] kind = "numeric" ->
            {VNum(n) : n \in {INT16_MIN - 1, INT16_MIN, -1, 0, 1, 2, 3, INT16_MAX,
                              INT16_MAX + 1}} \cup {VBool(TRUE)}
      [] OTHER -> {VStr(<<>>), VStr(Chars("a")), VStr(Chars("ab")),
                   VStr(Chars("false")), VNum(1)}

\* $set on a leaf, or on the namespace with a value for its first leaf
LeafValue ==
    [path \in DOMAIN sym.tree |->
        IF sym.tree[path].kind = "namespace"
        THEN {VObj(<<[k |-> sym.tree[path].children[1].key, v |-> v]>>) :
                 v \in LeafValues(sym.tree[sym.tree[path].children[1].path].kind)}
        ELSE LeafValues(sym.tree[path].kind)]
SymSetLeaf == SymSetFrom(LeafValue)

\* The values a caller passes to $set of an enum leaf: the qualified names of the
\* members, a qualified name of no member, a bare member name, other strings, and
\* values that are no strings; any value of its shape for another symbol
EnumNames == {"E.A", "E.B", "E.C", "A", "constructor", ""}
EnumValue ==
    [path \in DOMAIN sym.tree |->
        IF sym.tree[path].kind = "enum"
        THEN {VStr(Chars(name)) : name \in EnumNames} \cup {VBool(TRUE), VNum(0)}
        ELSE Values(sym.tree, path)]
SymSetEnum == SymSetFrom(EnumValue)

\* The values a caller passes to $set of an array: the arrays of up to length + 1
\* elements, an element of the wrong type among them, and values that are no
\* arrays; any value of its shape for another symbol
ArrayInputs(tree, path) ==
    UNION { {VArr(e) : e \in [1..m -> {VBool(TRUE), VBool(FALSE)}]} :
               m \in 0..(tree[path].length + 1) }
    \cup {VArr(<<VNum(1)>>), VBool(TRUE), VObj(<<>>)}
ArrayValue ==
    [path \in DOMAIN sym.tree |->
        IF sym.tree[path].kind = "array" THEN ArrayInputs(sym.tree, path)
        ELSE Values(sym.tree, path)]
SymSetArray == SymSetFrom(ArrayValue)

\* Values of the wrong type for a symbol of the given kind
Wrong(kind) ==
    CASE kind = "boolean" -> {VNull, VNum(1)}
      [] kind = "numeric" -> {VNull, VBool(TRUE)}
      [] kind = "string" -> {VNull, VNum(1)}
      [] kind = "array" -> {VNull, VObj(<<>>)}
      [] OTHER -> {VNull, VArr(<<>>)}

\* The entry a value may have for one child: none, the child's full value or a
\* value of the wrong type
MemberChoice(tree, child) ==
    {<<>>} \cup {<<[k |-> child.key, v |-> v]>> :
                    v \in {FullValue(tree, child.path)} \cup Wrong(tree[child.path].kind)}

RECURSIVE EntryChoices(_, _)
\* The entries for the children in the order of declaration
EntryChoices(tree, children) ==
    IF children = <<>> THEN {<<>>}
    ELSE {first \o rest : first \in MemberChoice(tree, Head(children)),
                          rest \in EntryChoices(tree, Tail(children))}

\* An entry more, with a key no child has: an unknown one or an inherited one
ExtraEntries == {<<>>, <<[k |-> "zz", v |-> VBool(TRUE)]>>,
                 <<[k |-> "constructor", v |-> VBool(TRUE)]>>}

\* The values of any shape a caller passes to $set of the symbol at `path`:
\* matching and not matching the symbol, with members of the wrong type, with
\* undeclared keys, with too many elements
ShapeValues(tree, path) ==
    CASE tree[path].kind \in {"boolean", "numeric", "string"} ->
            {FullValue(tree, path), VObj(<<>>), VArr(<<>>)} \cup Wrong(tree[path].kind)
      [] tree[path].kind = "array" ->
            UNION { {VArr(e) : e \in [1..m -> {VBool(TRUE), VNull, VNum(1)}]} :
                       m \in 0..tree[path].length }
            \cup {VArr([k \in 1..(tree[path].length + 1) |-> VBool(TRUE)])}
            \cup Wrong("array") \cup {VBool(TRUE)}
      [] tree[path].kind = "struct" ->
            {VObj(e \o x) : e \in EntryChoices(tree, tree[path].children),
                            x \in ExtraEntries}
            \cup Wrong("struct") \cup {VBool(TRUE)}
      [] OTHER ->
            {VObj(e \o x) : e \in EntryChoices(tree, tree[path].children),
                            x \in ExtraEntries}
            \cup {VObj(<<[k |-> tree[path].children[1].key, v |-> v]>>) :
                     v \in ShapeValues(tree, tree[path].children[1].path)}
            \cup Wrong("namespace") \cup {VBool(TRUE)}
ShapeValue == [path \in DOMAIN sym.tree |-> ShapeValues(sym.tree, path)]
SymSetShape == SymSetFrom(ShapeValue)

\* The orders the caller may have written the keys of an object in
Reorderings(entries) ==
    {[k \in 1..Len(entries) |-> entries[p[k]]] :
        p \in {f \in [1..Len(entries) -> 1..Len(entries)] :
                  \A i, j \in 1..Len(entries) : f[i] = f[j] => i = j}}

RECURSIVE OrderedValues(_, _)
RECURSIVE OrderedEntries(_, _)
\* The entries for all the children, in the order of declaration
OrderedEntries(tree, children) ==
    IF children = <<>> THEN {<<>>}
    ELSE {<<[k |-> Head(children).key, v |-> v]>> \o rest :
             v \in OrderedValues(tree, Head(children).path),
             rest \in OrderedEntries(tree, Tail(children))}

\* The whole values of the symbol at `path`, the keys of every object in any order
OrderedValues(tree, path) ==
    IF tree[path].kind \in {"struct", "namespace"}
    THEN UNION { {VObj(e) : e \in Reorderings(entries)} :
                    entries \in OrderedEntries(tree, tree[path].children) }
    ELSE {FullValue(tree, path)}
OrderedValue == [path \in DOMAIN sym.tree |-> OrderedValues(sym.tree, path)]
SymSetOrdered == SymSetFrom(OrderedValue)

\* symbol.$clear(): clear, then emitCleared
SymClear ==
    \E path \in DOMAIN sym.tree :
        LET r == BindingClear(sym.tree, sym.valid, sym.mem, path)
            emitted == IF r.err = ""
                       THEN Emit(sym.tree, sym.listeners, path, sym.tree[path].onClear)
                       ELSE <<>>
        IN  /\ sym' = [sym EXCEPT !.last = Operation("clear", path, NoValue, r, emitted),
                                  !.mem = r.mem]
            /\ UNCHANGED <<com, ns, reg, sub, ctx>>

\* The symbols below and including the one at `path`
Subtree(tree, path) ==
    {q \in DOMAIN tree : Len(q) >= Len(path) /\ SubSeq(q, 1, Len(path)) = path}

\* The emitters of the model: the bindings, the symbol registry and the context
Emitters(tree) == DOMAIN tree \cup {SymbolRegistry, Context}

\* symbol.$onInvalidated(callback): the callback returns or throws
MaxCallbacks == 2
SymOnInvalidated ==
    \E path \in DOMAIN sym.tree, callback \in {"returns", "throws"} :
        /\ Cardinality({q \in DOMAIN sym.tree : q # path /\ sym.callbacks[q] # "none"})
               < MaxCallbacks
        /\ sym' = [sym EXCEPT !.callbacks[path] = callback]
        /\ UNCHANGED <<com, ns, reg, sub, ctx>>

\* What TcSymbol.invalidate did: the callbacks it called, and "threw" if one threw
Invalidated(path, st) ==
    [NoOperation EXCEPT !.op = "invalidate", !.path = path, !.called = st.called,
                        !.order = st.order,
                        !.err = IF st.threw THEN "threw" ELSE "",
                        !.before = sym.mem]

\* The symbols after TcSymbol.invalidate ended in st
AfterInvalidate(path, st) ==
    [sym EXCEPT !.valid = st.valid, !.last = Invalidated(path, st)]

\* TcSymbol.invalidate(symbol) on any symbol
SymInvalidate ==
    \E path \in DOMAIN sym.tree :
        /\ sym' = AfterInvalidate(path,
                      Invalidate(sym.tree,
                                 [valid |-> sym.valid, callbacks |-> sym.callbacks,
                                  called |-> <<>>, order |-> <<>>,
                                  threw |-> FALSE], path))
        /\ UNCHANGED <<com, ns, reg, sub, ctx>>

\* An operation of a binding in flight: where it waits (pc "convert" for the
\* awaited conversion of the client, "transport" for the awaited multi-read or
\* multi-write), the packages it holds, the requests it handed to the transport
\* with the binding's valid flag at that moment, and the flag when it ended
Flight(op, path, pc, err) ==
    [op |-> op, path |-> path, pc |-> pc, err |-> err, value |-> NoValue,
     packages |-> <<>>, handed |-> <<>>, valid |-> TRUE]

\* What TcCom.read / TcCom.write hands to the client for a binding
Handed(flight, items, valid) ==
    [flight EXCEPT !.pc = "transport",
                   !.handed = Append(@, [items |-> items, valid |-> valid])]

\* The operation ended: with its value, or with the exception
Ended(flight, err, valid) ==
    [flight EXCEPT !.pc = IF err = "" THEN "done" ELSE "failed", !.err = err,
                   !.valid = valid]

\* Calls of read, write and clear the model starts
MaxFlights == 2

\* TcBinding.read up to its await: the valid check, TcCom.read up to readRawMulti
FlightRead(path) ==
    IF ~sym.valid[path] THEN Flight("get", path, "failed", "TcBindingIsInvalidException")
    ELSE IF ~com.ads THEN Flight("get", path, "failed", "TcComIsInvalidException")
    ELSE Handed(Flight("get", path, "transport", ""), sym.tree[path].readPackages, TRUE)

\* TcBinding.write up to its await: the valid check, toRaw with the checkInput of
\* every binding below, TcCom.toRaw up to convertToRaw
FlightWrite(path, r) ==
    IF ~sym.valid[path] THEN Flight("set", path, "failed", "TcBindingIsInvalidException")
    ELSE IF r.err # "" THEN Flight("set", path, "failed", r.err)
    ELSE IF ~com.ads THEN Flight("set", path, "failed", "TcComIsInvalidException")
    ELSE [Flight("set", path, "convert", "") EXCEPT !.packages = r.out]

\* TcBinding.clear up to its await: the checks, TcCom.write up to writeRawMulti
FlightClear(path) ==
    IF ~sym.valid[path] THEN Flight("clear", path, "failed", "TcBindingIsInvalidException")
    ELSE IF sym.tree[path].readOnly
    THEN Flight("clear", path, "failed", "TcBindingReadOnlyException")
    ELSE IF ~com.ads THEN Flight("clear", path, "failed", "TcComIsInvalidException")
    ELSE Handed([Flight("clear", path, "transport", "")
                    EXCEPT !.packages = sym.tree[path].clearPackages],
                sym.tree[path].clearPackages, TRUE)

\* A caller starts $get, $set(value) or $clear
FlStart ==
    /\ Len(sym.flights) < MaxFlights
    /\ \E path \in DOMAIN sym.tree, op \in {"get", "set", "clear"} :
          sym' = [sym EXCEPT !.flights = Append(@,
                     CASE op = "get" -> FlightRead(path)
                       [] op = "set" -> FlightWrite(path,
                              ToRaw(sym.tree, sym.valid, path, FullValue(sym.tree, path)))
                       [] op = "clear" -> FlightClear(path))]
    /\ UNCHANGED <<com, ns, reg, sub, ctx>>

\* readRawMulti answered: .then(dataPackages => this.fromRaw(dataPackages)) up to
\* the awaited convertFromRaw calls of the leaves
AnsweredRead(flight, r) ==
    IF r.err # "" THEN Ended(flight, r.err, sym.valid[flight.path])
    ELSE IF ~com.ads
    THEN Ended(flight, "TcComIsInvalidException", sym.valid[flight.path])
    ELSE [flight EXCEPT !.pc = "convert", !.value = r.out]

\* The data the controller answers for the pointers of a read
ReadData(pointers) ==
    [k \in 1..Len(pointers) |->
        [indexGroup |-> pointers[k].indexGroup, indexOffset |-> pointers[k].indexOffset,
         data |-> MemoryAt(sym.mem, pointers[k])]]

\* The awaited readRawMulti / writeRawMulti answers; on a client that was
\* disconnected meanwhile it rejects
FlAnswered ==
    \E i \in 1..Len(sym.flights) :
        LET flight == sym.flights[i]
        IN  /\ flight.pc = "transport"
            /\ IF ~com.ads
               THEN sym' = [sym EXCEPT !.flights[i] =
                               Ended(flight, IF flight.op = "get"
                                             THEN "TcComDataReadException"
                                             ELSE "TcComDataWriteException",
                                     sym.valid[flight.path])]
               ELSE IF flight.op = "get"
               THEN sym' = [sym EXCEPT !.flights[i] =
                               AnsweredRead(flight,
                                   FromRaw(sym.tree, sym.valid, flight.path,
                                           ReadData(sym.tree[flight.path].readPackages)))]
               ELSE sym' = [sym EXCEPT !.flights[i] =
                                           Ended(flight, "", sym.valid[flight.path]),
                                       !.mem = MemoryWrite(@, flight.packages)]
            /\ UNCHANGED <<com, ns, reg, sub, ctx>>

\* The awaited conversions resolved. A read returns its value to the caller; a
\* write goes on with .then(dataPackages => this.context.COM.write(dataPackages)):
\* the __ads check of TcCom.write, then writeRawMulti
Converted(flight) ==
    IF flight.op = "get" THEN Ended(flight, "", sym.valid[flight.path])
    ELSE IF ~com.ads
    THEN Ended(flight, "TcComIsInvalidException", sym.valid[flight.path])
    ELSE Handed(flight, flight.packages, sym.valid[flight.path])

\* convertToRaw / convertFromRaw of the client resolve
FlConverted ==
    \E i \in 1..Len(sym.flights) :
        /\ sym.flights[i].pc = "convert"
        /\ sym' = [sym EXCEPT !.flights[i] = Converted(sym.flights[i])]
        /\ UNCHANGED <<com, ns, reg, sub, ctx>>

\* The client rejects a conversion (TcCom.toRaw / TcCom.fromRaw wrap the error);
\* what a disconnected client does with a conversion is the client's choice
FlConvertFailed ==
    \E i \in 1..Len(sym.flights) :
        /\ sym.flights[i].pc = "convert"
        /\ ~com.ads
        /\ sym' = [sym EXCEPT !.flights[i] =
                       Ended(@, IF @.op = "get" THEN "TcComFromRawException"
                                ELSE "TcComToRawException", sym.valid[@.path])]
        /\ UNCHANGED <<com, ns, reg, sub, ctx>>

\* kill() up to the await of TcCom.disconnect: the symbol registry's destroy
\* invalidates the namespace and all below it; the client is still connected
FlKill ==
    /\ sym.valid[NsPath]
    /\ sym' = [sym EXCEPT !.valid =
                   Invalidate(sym.tree, [valid |-> sym.valid, callbacks |-> sym.callbacks,
                                         called |-> <<>>, order |-> <<>>,
                                         threw |-> FALSE], NsPath).valid]
    /\ UNCHANGED <<com, ns, reg, sub, ctx>>

\* TcCom.disconnect of that kill() ended: this.__ads = undefined
FlDisconnected ==
    /\ ~sym.valid[NsPath]
    /\ com.ads
    /\ com' = [com EXCEPT !.ads = FALSE]
    /\ UNCHANGED <<ns, reg, sym, sub, ctx>>

\* emitter.on(eventName, listener) for the watched event; the listener may call
\* e.stopPropagation()
MaxListeners == 1
SymOn ==
    \E emitter \in Emitters(sym.tree), stop \in BOOLEAN :
        /\ Cardinality(sym.listeners) < MaxListeners
        /\ sym' = [sym EXCEPT !.listeners =
                       @ \cup {[emitter |-> emitter, event |-> sym.watch, stop |-> stop]}]
        /\ UNCHANGED <<com, ns, reg, sub, ctx>>

-----------------------------------------------------------------------------
(* TcContext: kill, reinitialize and the source-change probe               *)
(* (tc-context.ts, tc-com.ts, tc-symbol-registry.ts)                       *)

\* No context, no $get yet (a $get records whether the handle was valid and taken
\* from the map, whether no run was in progress, and the last event before it).
\* ads and changeHndl hold a client (0 is `undefined`), changeCounter
\* the timestamp last observed (-1 is `undefined`); connected and subscribed are
\* the transport's clients that are open and that have a change-counter
\* subscription; map is the generation of the namespace in the symbol registry's
\* map (0: empty), handles the symbols handed out per generation: the namespace
\* and a symbol below it with its $onInvalidated callback; overlapped tells whether
\* a run of reinitialize() began while another was in progress; kills are the runs
\* that are calls of kill(), teardown the steps of kill() in the order they were
\* taken; onChange is the callback given to TcCom, called counts the calls of an
\* injected one, probe is the last report of the change counter and observed the
\* timestamp each client reported last (-1: none yet); errors is what each run
\* throws, catalogue the timestamp of the symbol catalogue the map was built
\* from, detected the timestamp of the last change that was detected
NoProbe == [client |-> 0, current |-> FALSE, reported |-> -1, seen |-> -1,
            reacted |-> FALSE, callback |-> ""]
NoGet == [op |-> "none", gen |-> 0, which |-> "", err |-> "", valid |-> FALSE,
          fresh |-> FALSE, quiet |-> FALSE, after |-> ""]
CtxIdle ==
    [ads |-> 0, changeHndl |-> 0, changeCounter |-> -1, connected |-> {},
     subscribed |-> {}, clients |-> 0, timestamp |-> 0, types |-> FALSE, map |-> 0,
     handles |-> <<>>, runs |-> <<>>, overlapped |-> FALSE, events |-> <<>>,
     last |-> NoGet, kills |-> {}, teardown |-> <<>>, onChange |-> "reinitialize",
     called |-> 0, probe |-> NoProbe, observed |-> <<>>, errors |-> <<>>,
     catalogue |-> -1, detected |-> -1]

\* The context after TcContext.create(settings): connected, registries built
CtxCreated ==
    [CtxIdle EXCEPT !.ads = 1, !.changeHndl = 1, !.connected = {1}, !.subscribed = {1},
                    !.clients = 1, !.types = TRUE, !.map = 1,
                    !.handles = <<[ns |-> TRUE, s |-> TRUE, callback |-> "none"]>>,
                    !.observed = <<-1>>, !.catalogue = 0]

\* The context after TcContext.create(settings, onSourceChange)
CtxCreatedWith(onSourceChange) == [CtxCreated EXCEPT !.onChange = onSourceChange]

MaxChanges == 1
MaxRuns == 1
MaxClients == 3
MaxOverlap == 2

\* Whether the $onInvalidated callback of the symbol in the map throws
DestroyThrows(c) == c.map # 0 /\ c.handles[c.map].callback = "throws"

\* A destroy that invalidates nothing
SymbolsKept(c) == c.handles

\* TcSymbolRegistry.destroy: TcSymbol.invalidate of the namespace in the map, which
\* invalidates the symbol below it and calls its callback, then the namespace
SymbolsDestroyed(c) ==
    IF c.map = 0 THEN c.handles
    ELSE [c.handles EXCEPT ![c.map] = [ns |-> @.ns /\ DestroyThrows(c), s |-> FALSE,
                                       callback |-> @.callback]]

\* A run of reinitialize(): where it is, the client it waits for, whether it will
\* reject when its disconnect is over, and the generations handed out before it
Run(pc, client, failed, old) ==
    [pc |-> pc, client |-> client, failed |-> failed, old |-> old]

\* An event emitted at the context by a run
Event(name, run) == [name |-> name, run |-> run]

\* What a run throws to its caller: no exception so far, and no build of a
\* registry failed in it
NoError == [build |-> FALSE, client |-> 0, err |-> ""]

\* The catch of __initialize(): the build of a registry failed with err on the
\* client the run had connected
BuildError(client, err) == [build |-> TRUE, client |-> client, err |-> err]

\* A rejected call of com.disconnect(), awaited in kill() or in the catch of
\* __initialize(), replaces what the run throws
Thrown(error, ok, err) == IF ok THEN error ELSE [error EXCEPT !.err = err]

\* com.disconnect() up to its await: unsubscribeAll on the client, if there is one
Disconnecting(c, failed, old, otherwise) ==
    IF c.ads # 0 THEN Run("unsubscribeAll", c.ads, failed, old)
    ELSE Run(otherwise, 0, failed, old)

\* Whether no run of reinitialize() is in progress
Quiet(c) == \A r \in 1..Len(c.runs) : c.runs[r].pc \in {"done", "failed"}

\* A step of kill() taken by a run
Step(name, run) == [step |-> name, run |-> run]

\* TcTypeRegistry.destroy in kill(): the type map is emptied
TypesDestroy(c, run) ==
    [c EXCEPT !.types = FALSE, !.teardown = Append(@, Step("types.destroy", run))]

\* TcSymbolRegistry.destroy in kill(): the namespaces are invalidated and, unless a
\* callback threw, the map is emptied
SymbolsDestroy(c, run) ==
    [c EXCEPT !.handles = SymbolsDestroyed(c),
              !.map = IF DestroyThrows(c) THEN @ ELSE 0,
              !.teardown = Append(@, Step("symbols.destroy", run))]

\* com.disconnect() in kill(), up to the first answer of the transport
ComDisconnect(c, run) ==
    [c EXCEPT !.teardown = Append(@, Step("disconnect", run)),
              !.runs = Append(@, Disconnecting(c, FALSE, Len(c.handles), "killed")),
              !.errors = Append(@, NoError)]

\* kill() after the two destroy calls: a callback that threw out of
\* TcSymbolRegistry.destroy rejects kill() there
KillFrom(c, threw) ==
    IF threw THEN [c EXCEPT !.runs = Append(@, Run("failed", 0, TRUE, Len(c.handles))),
                            !.errors = Append(@, [NoError EXCEPT !.err = "threw"])]
    ELSE ComDisconnect(c, Len(c.runs) + 1)

\* kill() up to the first answer of the transport: types.destroy(),
\* symbols.destroy(), com.disconnect()
Kill(c) ==
    KillFrom(SymbolsDestroy(TypesDestroy([c EXCEPT !.overlapped = @ \/ ~Quiet(c)],
                                         Len(c.runs) + 1),
                            Len(c.runs) + 1),
             DestroyThrows(c))

\* reinitialize() up to the first answer of the transport: kill()
Reinitialize(c) == Kill(c)

\* The controller's source timestamp changes
CtxPlcChange ==
    /\ ctx.timestamp < MaxChanges
    /\ ctx' = [ctx EXCEPT !.timestamp = @ + 1]
    /\ UNCHANGED <<com, ns, reg, sym, sub>>

\* A test that takes `undefined` for a timestamp
ChangedOrFirst(c, value) == c.changeCounter # value

\* The test of TcCom.__callback: a timestamp was stored and the report differs
Changed(c, value) == c.changeCounter # -1 /\ c.changeCounter # value

\* this.__callOnChange(): reinitialize() by default, the injected callback
\* otherwise
CallOnChange(c) ==
    IF c.onChange = "reinitialize" THEN Reinitialize(c)
    ELSE [c EXCEPT !.called = @ + 1]

\* this.emit('sourceChanged', ...) of TcCom.__callback
SourceChanged(c) ==
    [c EXCEPT !.events = Append(@, Event("sourceChanged",
                                IF c.onChange = "reinitialize" THEN Len(c.runs) + 1
                                ELSE 0))]

\* The record of a report: whether the client is the one TcCom holds with its
\* change handle, what the client had reported before, whether 'sourceChanged'
\* was emitted and which callback was called
Probe(c, d, client, value) ==
    [client |-> client, current |-> c.ads = client /\ c.changeHndl = client,
     reported |-> value, seen |-> c.observed[client],
     reacted |-> Len(d.events) > Len(c.events),
     callback |-> IF Len(d.runs) > Len(c.runs) THEN "reinitialize"
                  ELSE IF d.called > c.called THEN "injected" ELSE ""]

\* this.__changeCounter = response.value, the last statement of TcCom.__callback
Reported(c, d, client, value) ==
    [d EXCEPT !.changeCounter = value, !.probe = Probe(c, d, client, value),
              !.observed[client] = value,
              !.detected = IF Changed(c, value) THEN value ELSE @]

\* TcCom.__callback(response)
Callback(c, client, value) ==
    Reported(c, IF Changed(c, value) THEN CallOnChange(SourceChanged(c)) ELSE c,
             client, value)

\* TcCom.__callback: a change-counter subscription reports the timestamp
CtxNotify ==
    \E client \in ctx.subscribed \cap ctx.connected :
        /\ Changed(ctx, ctx.timestamp) /\ ctx.onChange = "reinitialize"
               => Len(ctx.runs) < MaxRuns
        /\ ctx' = Callback(ctx, client, ctx.timestamp)
        /\ UNCHANGED <<com, ns, reg, sym, sub>>

\* reinitialize() called by the user, also while another run is in progress
CtxReinitialize ==
    /\ Len(ctx.runs) < MaxOverlap
    /\ ctx' = Reinitialize(ctx)
    /\ UNCHANGED <<com, ns, reg, sym, sub>>

\* The controller's source changes again, also while a rebuild is in progress
CtxPlcChanges ==
    /\ ctx.timestamp < MaxOverlap
    /\ ctx' = [ctx EXCEPT !.timestamp = @ + 1]
    /\ UNCHANGED <<com, ns, reg, sym, sub>>

\* TcCom.__callback: a change-counter subscription reports the timestamp, also
\* while a run of reinitialize() is in progress
CtxReport ==
    \E client \in ctx.subscribed \cap ctx.connected :
        /\ Changed(ctx, ctx.timestamp) => Len(ctx.runs) < MaxOverlap
        /\ ctx' = Callback(ctx, client, ctx.timestamp)
        /\ UNCHANGED <<com, ns, reg, sym, sub>>

\* The exceptions of TcCom that wrap a rejected call of the transport
TransportErrors ==
    {"TcComUnsubscribeException", "TcComDisconnectException", "TcComConnectException",
     "TcComChangeDetectionException", "TcComTypeQueryException",
     "TcComSymbolQueryException"}

\* No call of the transport was rejected in any run
TransportSucceeds(c) ==
    \A r \in 1..Len(c.errors) : c.errors[r].err \notin TransportErrors

\* kill() called by the user
CtxKill ==
    /\ Len(ctx.runs) < MaxRuns
    /\ ctx' = [Kill(ctx) EXCEPT !.kills = @ \cup {Len(ctx.runs) + 1}]
    /\ UNCHANGED <<com, ns, reg, sym, sub>>

\* The run after the finally of unsubscribeAll: disconnect of the client, if any
AfterUnsubscribeAll(c, run, ok) ==
    IF c.ads # 0 THEN Run("disconnect", c.ads, run.failed \/ ~ok, run.old)
    ELSE Run(IF ok /\ ~run.failed THEN "killed" ELSE "failed", 0, run.failed \/ ~ok,
             run.old)

\* The transport answers unsubscribeAll of com.disconnect()
CtxUnsubscribeAll ==
    \E r \in 1..Len(ctx.runs), ok \in BOOLEAN :
        /\ ctx.runs[r].pc = "unsubscribeAll"
        /\ ctx' = [ctx EXCEPT
                     !.subscribed = IF ok THEN @ \ {ctx.runs[r].client} ELSE @,
                     !.changeCounter = -1,
                     !.changeHndl = 0,
                     !.errors[r] = Thrown(@, ok, "TcComUnsubscribeException"),
                     !.runs[r] = AfterUnsubscribeAll(ctx, @, ok)]
        /\ UNCHANGED <<com, ns, reg, sym, sub>>

\* The transport answers disconnect of com.disconnect()
CtxDisconnect ==
    \E r \in 1..Len(ctx.runs), ok \in BOOLEAN :
        /\ ctx.runs[r].pc = "disconnect"
        /\ ctx' = [ctx EXCEPT
                     !.connected = IF ok THEN @ \ {ctx.runs[r].client} ELSE @,
                     !.subscribed = IF ok THEN @ \ {ctx.runs[r].client} ELSE @,
                     !.ads = 0,
                     !.errors[r] = Thrown(@, ok, "TcComDisconnectException"),
                     !.runs[r] = Run(IF ok /\ ~@.failed THEN "killed" ELSE "failed",
                                     0, @.failed, @.old)]
        /\ UNCHANGED <<com, ns, reg, sym, sub>>

\* com.initialize() of __initialize(): TcComBusyException, or a new client
Initialize(c, r) ==
    IF c.ads # 0 \/ c.changeHndl # 0
    THEN [c EXCEPT !.runs[r] = Run("failed", 0, TRUE, @.old),
                   !.errors[r].err = "TcComBusyException"]
    ELSE [c EXCEPT !.clients = @ + 1,
                   !.observed = Append(@, -1),
                   !.runs[r] = Run("connect", c.clients + 1, FALSE, @.old)]

\* this.emit('killed', ...), the last statement of kill()
Killed(c, r) ==
    [c EXCEPT !.events = Append(@, Event("killed", r)),
              !.teardown = Append(@, Step("killed", r))]

\* kill() emits 'killed' and returns; in reinitialize(), __initialize() follows
CtxKilled ==
    \E r \in 1..Len(ctx.runs) :
        /\ ctx.runs[r].pc = "killed"
        /\ r \in ctx.kills \/ ctx.clients < MaxClients
        /\ ctx' = IF r \in ctx.kills
                  THEN [Killed(ctx, r) EXCEPT !.runs[r] = Run("done", 0, FALSE, @.old)]
                  ELSE Initialize(Killed(ctx, r), r)
        /\ UNCHANGED <<com, ns, reg, sym, sub>>

\* The transport answers ads.connect()
CtxConnect ==
    \E r \in 1..Len(ctx.runs), ok \in BOOLEAN :
        /\ ctx.runs[r].pc = "connect"
        /\ ctx' = [ctx EXCEPT
                     !.connected = IF ok THEN @ \cup {ctx.runs[r].client} ELSE @,
                     !.errors[r] = Thrown(@, ok, "TcComConnectException"),
                     !.runs[r] = Run(IF ok THEN "subscribe" ELSE "failed", @.client,
                                     ~ok, @.old)]
        /\ UNCHANGED <<com, ns, reg, sym, sub>>

\* The transport answers ads.subscribe(CHANGE_COUNTER): the client is stored, or
\* disconnected when the subscription failed
CtxSubscribe ==
    \E r \in 1..Len(ctx.runs), ok \in BOOLEAN :
        /\ ctx.runs[r].pc = "subscribe"
        /\ IF ok
           THEN ctx' = [ctx EXCEPT !.subscribed = @ \cup {ctx.runs[r].client},
                                   !.ads = ctx.runs[r].client,
                                   !.changeHndl = ctx.runs[r].client,
                                   !.runs[r] = Run("types", @.client, FALSE, @.old)]
           ELSE ctx' = [ctx EXCEPT !.connected = @ \ {ctx.runs[r].client},
                                   !.errors[r].err = "TcComChangeDetectionException",
                                   !.runs[r] = Run("failed", 0, TRUE, @.old)]
        /\ UNCHANGED <<com, ns, reg, sym, sub>>

\* types.create() ends: the registry is built, or __initialize() disconnects and
\* rethrows
CtxTypes ==
    \E r \in 1..Len(ctx.runs), ok \in BOOLEAN :
        /\ ctx.runs[r].pc = "types"
        /\ IF ok /\ ctx.ads # 0
           THEN ctx' = [ctx EXCEPT !.types = TRUE,
                                   !.runs[r] = Run("symbols", @.client, FALSE, @.old)]
           ELSE ctx' = [ctx EXCEPT !.runs[r] = Disconnecting(ctx, TRUE, @.old, "failed"),
                                   !.errors[r] = BuildError(ctx.runs[r].client,
                                       IF ctx.ads = 0 THEN "TcComIsInvalidException"
                                       ELSE "TcComTypeQueryException")]
        /\ UNCHANGED <<com, ns, reg, sym, sub>>

\* The symbols of symbols.create(): a new namespace with its symbols when the map
\* is empty and the types are registered
SymbolsCreated(c) ==
    IF c.types /\ c.map = 0
    THEN [c EXCEPT !.handles = Append(@, [ns |-> TRUE, s |-> TRUE, callback |-> "none"]),
                   !.map = Len(c.handles) + 1,
                   !.catalogue = c.timestamp]
    ELSE c

\* symbols.create() ends: reinitialize() emits 'reinitialized', or __initialize()
\* disconnects and rethrows
CtxSymbols ==
    \E r \in 1..Len(ctx.runs), ok \in BOOLEAN :
        /\ ctx.runs[r].pc = "symbols"
        /\ IF ok /\ ctx.ads # 0
           THEN ctx' = [SymbolsCreated(ctx) EXCEPT
                           !.events = Append(@, Event("reinitialized", r)),
                           !.runs[r] = Run("done", 0, FALSE, @.old)]
           ELSE ctx' = [ctx EXCEPT !.runs[r] = Disconnecting(ctx, TRUE, @.old, "failed"),
                                   !.errors[r] = BuildError(ctx.runs[r].client,
                                       IF ctx.ads = 0 THEN "TcComIsInvalidException"
                                       ELSE "TcComSymbolQueryException")]
        /\ UNCHANGED <<com, ns, reg, sym, sub>>

\* Whether a handle is valid
HandleValid(c, gen, which) ==
    IF which = "ns" THEN c.handles[gen].ns ELSE c.handles[gen].s

\* The name of the last event emitted at the context
LastEvent(c) == IF c.events = <<>> THEN "" ELSE c.events[Len(c.events)].name

\* binding.read() for $get: the exception, or "" when the value was read
ReadError(c, gen, which) ==
    IF ~HandleValid(c, gen, which) THEN "TcBindingIsInvalidException"
    ELSE IF c.ads = 0 THEN "TcComIsInvalidException"
    ELSE IF c.ads \notin c.connected THEN "TcComDataReadException"
    ELSE ""

\* $get on a handle, old or taken from the namespace map
CtxGet ==
    \E gen \in 1..Len(ctx.handles), which \in {"ns", "s"} :
        /\ ctx' = [ctx EXCEPT !.last =
                      [op |-> "get", gen |-> gen, which |-> which,
                       err |-> ReadError(ctx, gen, which),
                       valid |-> HandleValid(ctx, gen, which),
                       fresh |-> gen = ctx.map, quiet |-> Quiet(ctx),
                       after |-> LastEvent(ctx)]]
        /\ UNCHANGED <<com, ns, reg, sym, sub>>

\* $onInvalidated(callback) on a valid symbol below a namespace
CtxOnInvalidated ==
    \E gen \in 1..Len(ctx.handles), callback \in {"returns", "throws"} :
        /\ ctx.handles[gen].s
        /\ ctx' = [ctx EXCEPT !.handles[gen].callback = callback]
        /\ UNCHANGED <<com, ns, reg, sym, sub>>

-----------------------------------------------------------------------------
(* TcBinding.subscribe / unsubscribe of one binding  (tc-binding.ts)       *)

\* What the caller of $subscribe, $unsubscribe or a method receives when the
\* binding's call ends with err: $subscribe calls this.$binding.subscribe without
\* awaiting or returning its promise, the other two return it
Delivered(op, err) == IF op = "subscribe" THEN "" ELSE err

\* What the last call on the binding did: whether the binding had a subscription
\* or an installation in flight when it was made, and whether it called the transport
SubCalled(op, err, transport) ==
    [op |-> op, err |-> err, transport |-> transport,
     had |-> sub.subscription # 0,
     installing |-> \E k \in 1..Len(sub.calls) : sub.calls[k].kind = "subscribe",
     valid |-> sub.valid, caller |-> Delivered(op, err)]

\* No binding: subscription 0 is `undefined`, handles counts the transport's
\* handles created so far, live holds those not yet removed
SubIdle ==
    [valid |-> FALSE, subscription |-> 0, live |-> {}, handles |-> 0, calls |-> <<>>,
     last |-> [op |-> "none", err |-> "", transport |-> FALSE, had |-> FALSE,
               installing |-> FALSE, valid |-> FALSE, caller |-> ""],
     awaited |-> "none", changed |-> FALSE]

\* What a caller has awaited so far: "subscribe" once $subscribe was called (its
\* promise is fulfilled at once), "unsubscribing" while an $unsubscribe called
\* after it waits for the transport, "unsubscribe" once that $unsubscribe returned
\* to its caller. `changed` tells whether a change event was emitted since
Unsubscribing(awaited) == IF awaited = "subscribe" THEN "unsubscribing" ELSE awaited
Unsubscribed(awaited, after) == IF awaited = after THEN "unsubscribe" ELSE awaited

\* A sequence without its i-th element
Remove(seq, i) == SubSeq(seq, 1, i - 1) \o SubSeq(seq, i + 1, Len(seq))

MaxCalls == 2
MaxHandles == 3

\* symbol.$subscribe(): binding.subscribe up to its await of COM.subscribe
SubSubscribe ==
    /\ Len(sub.calls) < MaxCalls
    /\ sub.handles + Len(sub.calls) < MaxHandles
    /\ IF ~sub.valid
       THEN sub' = [sub EXCEPT !.last =
                        SubCalled("subscribe", "TcBindingIsInvalidException", FALSE),
                               !.awaited = "subscribe"]
       ELSE IF sub.subscription = 0
       THEN sub' = [sub EXCEPT !.calls = Append(@, [kind |-> "subscribe", hndl |-> 0]),
                               !.last = SubCalled("subscribe", "", TRUE),
                               !.awaited = "subscribe"]
       ELSE sub' = [sub EXCEPT !.last = SubCalled("subscribe", "", FALSE),
                               !.awaited = "subscribe"]
    /\ UNCHANGED <<com, ns, reg, sym, ctx>>

\* The transport installs the subscription of a call in flight, and the call
\* stores the handle in this.__subscription
SubInstalled ==
    \E i \in 1..Len(sub.calls) :
        /\ sub.calls[i].kind = "subscribe"
        /\ sub' = [sub EXCEPT !.handles = @ + 1, !.live = @ \cup {sub.handles + 1},
                              !.subscription = sub.handles + 1,
                              !.calls = Remove(@, i)]
        /\ UNCHANGED <<com, ns, reg, sym, ctx>>

\* The transport rejects a call in flight: TcComSubscribeException or
\* TcComUnsubscribeException, this.__subscription is left as it is
SubRejected ==
    \E i \in 1..Len(sub.calls) :
        /\ sub' = [sub EXCEPT !.calls = Remove(@, i),
                              !.awaited = IF sub.calls[i].kind = "unsubscribe"
                                             /\ @ = "unsubscribing"
                                          THEN "none" ELSE @]
        /\ UNCHANGED <<com, ns, reg, sym, ctx>>

\* symbol.$unsubscribe(): binding.unsubscribe up to its await of COM.unsubscribe
SubUnsubscribe ==
    /\ Len(sub.calls) < MaxCalls
    /\ IF ~sub.valid
       THEN sub' = [sub EXCEPT !.last =
                        SubCalled("unsubscribe", "TcBindingIsInvalidException", FALSE)]
       ELSE IF sub.subscription # 0
       THEN sub' = [sub EXCEPT !.calls = Append(@, [kind |-> "unsubscribe",
                                                    hndl |-> sub.subscription]),
                               !.last = SubCalled("unsubscribe", "", TRUE),
                               !.awaited = Unsubscribing(@)]
       ELSE sub' = [sub EXCEPT !.last = SubCalled("unsubscribe", "", FALSE),
                               !.awaited = Unsubscribed(@, "subscribe"),
                               !.changed = FALSE]
    /\ UNCHANGED <<com, ns, reg, sym, ctx>>

\* The transport removes the handle of an unsubscribe in flight, and the call
\* sets this.__subscription to undefined
SubRemoved ==
    \E i \in 1..Len(sub.calls) :
        /\ sub.calls[i].kind = "unsubscribe"
        /\ sub' = [sub EXCEPT !.live = @ \ {sub.calls[i].hndl},
                              !.subscription = 0,
                              !.calls = Remove(@, i),
                              !.awaited = Unsubscribed(@, "unsubscribing"),
                              !.changed = FALSE]
        /\ UNCHANGED <<com, ns, reg, sym, ctx>>

\* The transport reports a change through a live handle: the callback of
\* subscribe reads the binding and $subscribe's callback emits the change event
SubNotify ==
    \E hndl \in sub.live :
        /\ sub' = [sub EXCEPT !.last =
                      [SubCalled("notify", IF sub.valid THEN ""
                                           ELSE "TcBindingIsInvalidException", FALSE)
                          EXCEPT !.had = hndl = sub.subscription],
                              !.changed = @ \/ sub.valid]
        /\ UNCHANGED <<com, ns, reg, sym, ctx>>

\* A method of a struct symbol is called: TcStructureBinding.callMethod hands the
\* call to TcCom.callMethod, which tests this.__ads and invokes the method. The
\* client of a valid binding is connected; kill() disconnects it some time after
\* it has invalidated the binding
SubCallMethod ==
    \E ads \in {TRUE, sub.valid} :
        /\ sub' = [sub EXCEPT !.last =
                       SubCalled("method", IF ads THEN "" ELSE "TcComIsInvalidException",
                                 ads)]
        /\ UNCHANGED <<com, ns, reg, sym, ctx>>

\* TcBinding.invalidate on the binding
SubInvalidate ==
    /\ sub.valid
    /\ sub' = [sub EXCEPT !.valid = FALSE]
    /\ UNCHANGED <<com, ns, reg, sym, ctx>>

-----------------------------------------------------------------------------
(* Properties of clear, of the event names and of invalidation             *)

\* The leaves below the symbol at `path`
Leaves(tree, path) ==
    {q \in Subtree(tree, path) : tree[q].kind \in {"boolean", "numeric", "string"}}

\* The data packages handed to the transport by the last operation
SentItems == Flatten([k \in 1..Len(sym.last.sent) |-> sym.last.sent[k].items])

\* Whether a data package lies in the byte range of the binding b
Addresses(item, b) ==
    /\ item.indexGroup = b.indexGroup
    /\ item.indexOffset >= b.indexOffset
    /\ item.indexOffset < b.indexOffset + b.size

\* The last operation was clear() on a valid composite that is not read-only and
\* has a read-only leaf below it
ClearOverReadOnlyLeaf ==
    /\ sym.last.op = "clear"
    /\ sym.tree[sym.last.path].kind \in {"struct", "array", "namespace"}
    /\ ~sym.tree[sym.last.path].readOnly
    /\ sym.valid[sym.last.path]
    /\ \E q \in Leaves(sym.tree, sym.last.path) : sym.tree[q].readOnly

\* C1: clear() on a composite that is not read-only and has a read-only leaf below
\* it succeeds, sends no package to a read-only leaf, sends the default bytes of
\* every other leaf that has a default, and leaves the bytes of the read-only
\* leaves as they were
C1_ClearSkipsReadOnly ==
    ClearOverReadOnlyLeaf =>
        /\ sym.last.err = ""
        /\ \A q \in Leaves(sym.tree, sym.last.path) :
              IF sym.tree[q].readOnly
              THEN /\ \A k \in 1..Len(SentItems) : ~Addresses(SentItems[k], sym.tree[q])
                   /\ MemoryAt(sym.mem, sym.tree[q]) = MemoryAt(sym.last.before, sym.tree[q])
              ELSE \A c \in 1..Len(sym.tree[q].clearPackages) :
                      \E k \in 1..Len(SentItems) : SentItems[k] = sym.tree[q].clearPackages[c]

\* C1 (the case): a clear over a read-only leaf that held a byte other than its
\* default has returned
C1_ClearedOverReadOnly ==
    /\ ClearOverReadOnlyLeaf
    /\ sym.last.err = ""
    /\ \E q \in Leaves(sym.tree, sym.last.path) :
          sym.tree[q].readOnly /\ MemoryAt(sym.last.before, sym.tree[q]) = <<1>>

\* The alias a type without alias attributes gives the events
DefaultAlias(op) ==
    CASE op = "set" -> "set" [] op = "get" -> "get" [] OTHER -> "cleared"

\* The last operation was a successful $set, $get or $clear on a symbol of a
\* registered type (not the namespace)
SymbolOperationDone ==
    /\ sym.last.op \in {"set", "get", "clear"}
    /\ sym.last.err = ""
    /\ sym.last.path # NsPath

\* C5: a successful $set, $get or $clear on a symbol emits exactly one event at
\* the symbol, named by the type's onSet, onGet or onClear alias (the types of the
\* model carry no alias attribute: 'set', 'get', 'cleared')
C5_EventNames ==
    SymbolOperationDone =>
        /\ Len(SelectSeq(sym.last.emitted,
                         LAMBDA e : e.emitter = sym.last.path)) = 1
        /\ sym.last.emitted[1].emitter = sym.last.path
        /\ sym.last.emitted[1].event = DefaultAlias(sym.last.op)

\* C5 (the case): a $set on a symbol has succeeded and emitted its event
C5_SetEmitted ==
    /\ SymbolOperationDone
    /\ sym.last.op = "set"
    /\ Len(sym.last.emitted) >= 1

\* The last operation was TcSymbol.invalidate and it returned
InvalidateReturned == sym.last.op = "invalidate" /\ sym.last.err = ""

\* The last operation was a read, write or clear on an invalid binding
OperationOnInvalid ==
    sym.last.op \in {"get", "set", "clear"} /\ ~sym.valid[sym.last.path]

\* Once TcSymbol.invalidate(root) has returned, root and every symbol below it is
\* invalid; an operation on an invalid binding fails with
\* TcBindingIsInvalidException, sends nothing and leaves the controller as it was
InvalidatedBelow ==
    /\ InvalidateReturned =>
          \A q \in Subtree(sym.tree, sym.last.path) : ~sym.valid[q]
    /\ OperationOnInvalid =>
          /\ sym.last.err = "TcBindingIsInvalidException"
          /\ sym.last.sent = <<>>
          /\ sym.mem = sym.last.before

\* An invalid binding stays invalid
StaysInvalid == \A q \in DOMAIN sym.valid : ~sym.valid[q] => ~sym'.valid[q]

EmitterChain(path) ==
    [k \in 1..(Len(path) + 1) |-> SubSeq(path, 1, Len(path) + 1 - k)]
        \o <<SymbolRegistry, Context>>

\* The last operation emitted an event
EventEmitted == sym.last.op \in {"get", "set", "clear"} /\ sym.last.err = ""

\* C6: an event of a symbol binding is emitted at most once by each emitter of
\* the chain binding, bindings above it, namespace, symbol registry, context, in
\* that order; an emitter emits it if and only if no listener of a lower emitter
\* stopped the propagation; when none did, the context emits it exactly once
C6_Bubbling ==
    EventEmitted =>
        /\ Len(sym.last.emitted) \in 1..Len(EmitterChain(sym.last.path))
        /\ \A k \in 1..Len(sym.last.emitted) :
              /\ sym.last.emitted[k].emitter = EmitterChain(sym.last.path)[k]
              /\ sym.last.emitted[k].event = sym.last.emitted[1].event
        /\ \A k \in 1..Len(EmitterChain(sym.last.path)) :
              k <= Len(sym.last.emitted)
                  <=> \A j \in 1..Min({k - 1, Len(sym.last.emitted)}) :
                          ~sym.last.emitted[j].stopped
        /\ (\A k \in 1..Len(sym.last.emitted) : ~sym.last.emitted[k].stopped)
              => Cardinality({k \in 1..Len(sym.last.emitted) :
                                 sym.last.emitted[k].emitter = Context}) = 1

\* C6 (the case): an event of a struct member went up to the struct, where a
\* listener stopped it
C6_StoppedAtParent ==
    /\ EventEmitted
    /\ Len(sym.last.path) = 2
    /\ Len(sym.last.emitted) = 2
    /\ sym.last.emitted[2].stopped

\* C4: at most one transport subscription of the binding is live at any time; a
\* $subscribe made while a subscription exists or is being installed, and an
\* $unsubscribe made while there is none, make no transport call
C4_OneSubscription ==
    /\ Cardinality(sub.live) <= 1
    /\ sub.last.op = "subscribe" /\ (sub.last.had \/ sub.last.installing)
          => ~sub.last.transport
    /\ sub.last.op = "unsubscribe" /\ ~sub.last.had => ~sub.last.transport

\* C4 (the case): $subscribe was called on a valid binding while an earlier
\* $subscribe was still being installed
C4_SubscribeWhileInstalling ==
    /\ sub.last.op = "subscribe"
    /\ sub.last.err = ""
    /\ sub.last.installing

\* The handles handed out before the change that started the run are invalid
OldInvalid(run) ==
    \A gen \in 1..ctx.runs[run].old : ~ctx.handles[gen].ns /\ ~ctx.handles[gen].s

\* 'killed' of a run was emitted before the i-th event
KilledBefore(run, i) ==
    \E j \in 1..(i - 1) : ctx.events[j] = Event("killed", run)

\* When a run emits 'reinitialized', it has emitted 'killed' and the old handles
\* are invalid; $get on an invalid handle fails with TcBindingIsInvalidException;
\* once 'reinitialized' is the last event and no run is in progress, the handles
\* in the namespace map are valid and $get on them returns a value, provided no
\* two runs of reinitialize() have overlapped
Reinitialized ==
    /\ \A i \in 1..Len(ctx.events) :
          ctx.events[i].name = "reinitialized"
              => KilledBefore(ctx.events[i].run, i) /\ OldInvalid(ctx.events[i].run)
    /\ \A i \in 1..Len(ctx.events) :
          ctx.events[i].name = "killed" => OldInvalid(ctx.events[i].run)
    /\ ctx.last.op = "get" /\ ~ctx.last.valid
          => ctx.last.err = "TcBindingIsInvalidException"
    /\ LastEvent(ctx) = "reinitialized" /\ Quiet(ctx) /\ ctx.map # 0
          /\ ~ctx.overlapped
          => ctx.handles[ctx.map].ns /\ ctx.handles[ctx.map].s
    /\ ctx.last.op = "get" /\ ctx.last.fresh /\ ctx.last.quiet
          /\ ctx.last.after = "reinitialized" /\ ~ctx.overlapped
          => ctx.last.err = ""

\* An invalid handle never becomes valid again
NeverValidAgain ==
    \A gen \in 1..Len(ctx.handles) :
        /\ ~ctx.handles[gen].ns => ~ctx'.handles[gen].ns
        /\ ~ctx.handles[gen].s => ~ctx'.handles[gen].s

Rank(step) ==
    CASE step = "symbols.destroy" -> 1
      [] step = "types.destroy" -> 2
      [] step = "disconnect" -> 3
      [] OTHER -> 4

\* C12: kill() tears down in this order: the symbol registry is destroyed (every
\* handle handed out is invalidated), then the type registry is destroyed, then
\* the transport is disconnected, and only then 'killed' is emitted.
C12_TeardownOrder ==
    \A i, j \in 1..Len(ctx.teardown) :
        i < j /\ ctx.teardown[i].run = ctx.teardown[j].run
            => Rank(ctx.teardown[i].step) < Rank(ctx.teardown[j].step)

\* The case C12 is about: a call of kill() has emitted 'killed' and returned
C12_KillReturned ==
    \E r \in ctx.kills :
        /\ ctx.runs[r].pc = "done"
        /\ \E i \in 1..Len(ctx.teardown) : ctx.teardown[i] = Step("killed", r)

\* Whether a run is over
RunSettled(c, r) == r \in 1..Len(c.runs) /\ c.runs[r].pc \in {"done", "failed"}

\* Everything kill() takes down is down: the handles handed out before the call
\* are invalid, the namespace map and the type registry are empty and TcCom holds
\* no client
TornDown(c, r) ==
    /\ \A gen \in 1..c.runs[r].old : ~c.handles[gen].ns /\ ~c.handles[gen].s
    /\ c.map = 0
    /\ ~c.types
    /\ c.ads = 0

\* A step in which a call of kill() settles leaves everything torn down
KillSettlesTornDown ==
    \A r \in ctx'.kills :
        RunSettled(ctx', r) /\ ~RunSettled(ctx, r) => TornDown(ctx', r)

\* C13: kill() carries out all three teardown steps even when an earlier one
\* fails: once kill() has settled, fulfilled or rejected, every handle handed out
\* before is invalid, the namespace map and the type registry are empty and the
\* transport is disconnected.
C13_KillBestEffort == [][KillSettlesTornDown]_vars

\* The case C13 is about: a call of kill() was rejected
C13_KillRejected ==
    \E r \in ctx.kills : ctx.runs[r].pc = "failed"

\* The last report of the client TcCom holds triggered the reaction exactly if
\* that client had reported before, and a different timestamp; the reaction is 'sourceChanged'
\* and the call of reinitialize(), or of the injected callback if one was given
ProbeReacts ==
    ctx.probe.current =>
        /\ ctx.probe.reacted
              <=> (ctx.probe.seen # -1 /\ ctx.probe.seen # ctx.probe.reported)
        /\ ctx.probe.callback = IF ctx.probe.reacted THEN ctx.onChange ELSE ""

\* C14: the change-counter notifier emits 'sourceChanged' and then calls the
\* on-change callback (reinitialize by default, the injected one if given) exactly
\* when the reported timestamp differs from the one last observed on the current
\* connection; the first report after a connect and a report equal to the last
\* observed value trigger nothing.
C14_ProbeReaction == ProbeReacts

\* The case C14 is about: a report of a changed timestamp called the injected
\* callback
C14_InjectedCalled ==
    ctx.probe.reacted /\ ctx.probe.callback = "injected"

\* The attributes a leaf symbol of the model may declare
LeafAttributes(type) ==
    CASE type = "BOOL" -> {<<>>, DefaultTrueAttr, ReadOnlyAttr}
      [] type = "INT" -> {<<>>, DefaultAttr("1"), ReadOnlyAttr,
                          LowerBorderAttr("1") \o UpperBorderAttr("2"),
                          UpperBorderAttr("2") \o LowerBorderAttr("-1") \o DefaultAttr("1")}
      [] OTHER -> {<<>>, DefaultAttr("ab"), ReadOnlyAttr}

\* The value of the last attribute of the given name a symbol declares, or none
Declared(attributes, key) ==
    LET hits == SelectSeq(attributes, LAMBDA a : AttrKey(a.name) = key)
    IN  IF hits = <<>> THEN None ELSE Some(hits[Len(hits)].value)

\* The effective default of a leaf: its default attribute parsed per kind, else
\* false, 0 (the lower border of a sub-range) or the empty string
EffectiveDefault(kind, attributes) ==
    CASE kind = "boolean" ->
            VBool(Declared(attributes, "default") # None
                  /\ IsTrueLiteral(Declared(attributes, "default")[1]))
      [] kind = "numeric" ->
            IF Declared(attributes, "default") # None
            THEN VNum(ParseFloat(Declared(attributes, "default")[1]))
            ELSE IF Declared(attributes, "lowerborder") # None
            THEN VNum(ParseFloat(Declared(attributes, "lowerborder")[1]))
            ELSE VNum(0)
      [] OTHER ->
            IF Declared(attributes, "default") # None
            THEN VStr(Chars(Declared(attributes, "default")[1]))
            ELSE VStr(<<>>)

\* The last operation was a successful clear() of the leaf MAIN.s1
LeafCleared ==
    /\ sym.last.op = "clear" /\ sym.last.err = ""
    /\ sym.last.path = <<1>>
    /\ ~sym.tree[<<1>>].readOnly

\* C15: clear() followed by read() on a leaf that is not read-only returns the
\* leaf's effective default: the value of its default attribute parsed per kind
\* (true for boolean "true", the number for numeric, the literal string for
\* string), or false, 0 or the empty string when it declares none.
C15_ClearThenRead ==
    LeafCleared =>
        BindingRead(sym.tree, sym.valid, sym.mem, <<1>>).value
            = EffectiveDefault(sym.tree[<<1>>].kind, sym.declared[1].attributes)

\* The case C15 is about: a leaf that declares a default was cleared
C15_DefaultCleared ==
    /\ LeafCleared
    /\ Declared(sym.declared[1].attributes, "default") # None

\* The last operation was a successful $get of an array
ArrayRead ==
    /\ sym.last.op = "get" /\ sym.last.err = ""
    /\ sym.tree[sym.last.path].kind = "array"

\* The decoded value of the bytes the controller holds at the pointer of the
\* child with the given key of the array b
ElementAt(mem, tree, b, key) ==
    VBool(MemoryAt(mem, tree[(SelectSeq(b.children, LAMBDA c : c.index = key))[1].path])[1] # 0)

\* C18: read() on an array with dimension (startIndex, length), for every integer
\* startIndex, returns a sequence of exactly `length` entries whose entry i is the
\* decoded value of the bytes at the pointer of the child with key startIndex + i.
C18_ArrayRead ==
    ArrayRead =>
        /\ sym.last.value.t = "array"
        /\ Len(sym.last.value.s) = sym.tree[sym.last.path].length
        /\ \A i \in 0..(sym.tree[sym.last.path].length - 1) :
              sym.last.value.s[i + 1] =
                  ElementAt(sym.mem, sym.tree, sym.tree[sym.last.path],
                            sym.tree[sym.last.path].startIndex + i)

\* The case C18 is about: an array with a negative start index was read while
\* its elements differ
C18_NegativeStartRead ==
    /\ ArrayRead
    /\ sym.tree[sym.last.path].startIndex < 0
    /\ \E e1, e2 \in 1..Len(sym.last.value.s) : sym.last.value.s[e1] # sym.last.value.s[e2]

\* The last operation was a $set on a valid array that is not read-only
ArrayWrite ==
    /\ sym.last.op = "set"
    /\ sym.tree[sym.last.path].kind = "array"
    /\ ~sym.tree[sym.last.path].readOnly

\* The write package of element i of the sequence a for the array b
ElementPackage(tree, b, a, i) ==
    [indexGroup |-> b.indexGroup,
     indexOffset |-> tree[(SelectSeq(b.children,
                             LAMBDA c : c.index = b.startIndex + i))[1].path].indexOffset,
     data |-> <<a[i + 1].n>>]

\* A rejected write sent nothing and left the controller as it was
RejectedWith(err) ==
    /\ sym.last.err = err
    /\ sym.last.sent = <<>>
    /\ sym.mem = sym.last.before

\* C19: writing a sequence a to an array with dimension (startIndex, length)
\* writes a[i] to the child with key startIndex + i for every i < |a| when
\* |a| <= length, fails with TcBindingOutOfRangeException when |a| > length, and
\* a value that is no sequence fails with TcBindingInvalidTypeException.
C19_ArrayWrite ==
    ArrayWrite =>
        IF sym.last.input.t # "array" THEN RejectedWith("TcBindingInvalidTypeException")
        ELSE IF Len(sym.last.input.s) > sym.tree[sym.last.path].length
        THEN RejectedWith("TcBindingOutOfRangeException")
        ELSE IF \E k \in 1..Len(sym.last.input.s) : sym.last.input.s[k].t # "boolean"
        THEN RejectedWith("TcBindingInvalidTypeException")
        ELSE /\ sym.last.err = ""
             /\ SentItems
                  = [k \in 1..Len(sym.last.input.s) |->
                        ElementPackage(sym.tree, sym.tree[sym.last.path],
                                       sym.last.input.s, k - 1)]
             /\ \A i \in 0..(Len(sym.last.input.s) - 1) :
                   ElementAt(sym.mem, sym.tree, sym.tree[sym.last.path],
                             sym.tree[sym.last.path].startIndex + i)
                       = sym.last.input.s[i + 1]

\* The case C19 is about: a shorter sequence was written to an array whose start
\* index is not zero
C19_ShortWrite ==
    /\ ArrayWrite /\ sym.last.err = ""
    /\ sym.tree[sym.last.path].startIndex # 0
    /\ Len(sym.last.input.s) = 1
    /\ sym.mem # sym.last.before

RECURSIVE Reached(_, _, _)
\* The leaves a value reaches from the symbol at `path`: through the keys the
\* object has, through the positions the sequence has
Reached(tree, path, value) ==
    CASE tree[path].kind \in {"boolean", "numeric", "string"} -> {path}
      [] tree[path].kind = "array" ->
            UNION { Reached(tree,
                            (SelectSeq(tree[path].children,
                                LAMBDA c : c.index = tree[path].startIndex + k - 1))[1].path,
                            value.s[k]) : k \in 1..Len(value.s) }
      [] OTHER ->
            UNION { Reached(tree,
                            (SelectSeq(tree[path].children,
                                LAMBDA c : c.key = value.s[k].k))[1].path,
                            value.s[k].v) : k \in 1..Len(value.s) }

\* The last operation was a successful $set on a struct, namespace or array
CompositeWrite ==
    /\ sym.last.op = "set" /\ sym.last.err = ""
    /\ sym.tree[sym.last.path].kind \in {"struct", "array", "namespace"}

\* C20: a successful write of v on a struct, namespace or array sends write
\* packages only for the leaves reached through the keys or positions present in
\* v, and the controller bytes of every member absent from v are unchanged.
C20_WriteFrame ==
    CompositeWrite =>
        /\ \A k \in 1..Len(SentItems) :
              \E q \in Reached(sym.tree, sym.last.path, sym.last.input) :
                 /\ SentItems[k].indexGroup = sym.tree[q].indexGroup
                 /\ SentItems[k].indexOffset = sym.tree[q].indexOffset
        /\ \A q \in Leaves(sym.tree, sym.last.path)
                       \ Reached(sym.tree, sym.last.path, sym.last.input) :
              MemoryAt(sym.mem, sym.tree[q]) = MemoryAt(sym.last.before, sym.tree[q])

\* The case C20 is about: a write that reached some leaves of the composite and
\* left others out changed the controller
C20_PartialWrite ==
    /\ CompositeWrite
    /\ sym.mem # sym.last.before
    /\ Leaves(sym.tree, sym.last.path)
          \ Reached(sym.tree, sym.last.path, sym.last.input) # {}

RECURSIVE SameValue(_, _)
\* Structural equality of two values: leaves are equal, sequences are equal entry
\* by entry, objects have the same keys with equal values
SameValue(v, w) ==
    /\ v.t = w.t
    /\ CASE v.t = "array" ->
              /\ Len(v.s) = Len(w.s)
              /\ \A k \in 1..Len(v.s) : SameValue(v.s[k], w.s[k])
         [] v.t = "object" ->
              /\ {v.s[k].k : k \in 1..Len(v.s)} = {w.s[k].k : k \in 1..Len(w.s)}
              /\ \A k \in 1..Len(v.s) : \A j \in 1..Len(w.s) :
                    v.s[k].k = w.s[j].k => SameValue(v.s[k].v, w.s[j].v)
         [] OTHER -> v = w

\* The last operation was a successful $set with a value that reaches every leaf
\* below the symbol
FullWrite ==
    /\ sym.last.op = "set" /\ sym.last.err = ""
    /\ Reached(sym.tree, sym.last.path, sym.last.input)
          = Leaves(sym.tree, sym.last.path)

\* C21: on a controller that stores the bytes written to it, write(v) of an
\* accepted fully-populated value v on any node, leaf or composite, followed by
\* read() with no writer in between returns a value structurally equal to v.
C21_RoundTrip ==
    FullWrite =>
        /\ BindingRead(sym.tree, sym.valid, sym.mem, sym.last.path).err = ""
        /\ SameValue(BindingRead(sym.tree, sym.valid, sym.mem, sym.last.path).value,
                     sym.last.input)

\* The case C21 is about: a full value with different leaves was written to a
\* composite
C21_FullCompositeWritten ==
    /\ FullWrite
    /\ sym.tree[sym.last.path].kind \in {"struct", "array"}
    /\ sym.mem # sym.last.before
    /\ \E q1, q2 \in Leaves(sym.tree, sym.last.path) :
          MemoryAt(sym.mem, sym.tree[q1]) # MemoryAt(sym.mem, sym.tree[q2])

\* Whether a value has the type a symbol of the kind takes
Fits(kind, v) ==
    CASE kind = "boolean" -> v.t = "boolean"
      [] kind = "numeric" -> v.t = "number"
      [] kind = "string" -> v.t = "string"
      [] kind = "array" -> v.t = "array"
      [] OTHER -> v.t = "object"

\* The members of a value that belong to a child of the symbol at `path`: the
\* child's path and the member's value
Members(tree, path, v) ==
    IF tree[path].kind = "array"
    THEN {<<tree[path].children[j].path,
            v.s[tree[path].children[j].index - tree[path].startIndex + 1]>> :
             j \in {i \in 1..Len(tree[path].children) :
                       tree[path].children[i].index - tree[path].startIndex < Len(v.s)}}
    ELSE UNION { {<<tree[path].children[j].path, v.s[k].v>> :
                     k \in {i \in 1..Len(v.s) : v.s[i].k = tree[path].children[j].key}} :
                 j \in 1..Len(tree[path].children) }

RECURSIVE Mismatch(_, _, _)
\* The value does not match the shape of the symbol: it, or a member of it that
\* belongs to a child, has the wrong type
Mismatch(tree, path, v) ==
    \/ ~Fits(tree[path].kind, v)
    \/ /\ Fits(tree[path].kind, v)
       /\ tree[path].kind \in {"array", "struct", "namespace"}
       /\ \E m \in Members(tree, path, v) : Mismatch(tree, m[1], m[2])

RECURSIVE Foreign(_, _, _)
\* The value has, where its types match, a key no child has or more elements
\* than the array
Foreign(tree, path, v) ==
    /\ Fits(tree[path].kind, v)
    /\ tree[path].kind \in {"array", "struct", "namespace"}
    /\ \/ tree[path].kind = "array" /\ Len(v.s) > tree[path].length
       \/ /\ tree[path].kind # "array"
          /\ \E k \in 1..Len(v.s) :
                \A j \in 1..Len(tree[path].children) :
                   tree[path].children[j].key # v.s[k].k
       \/ \E m \in Members(tree, path, v) : Foreign(tree, m[1], m[2])

RECURSIVE TouchesReadOnly(_, _, _)
\* The value reaches a read-only symbol
TouchesReadOnly(tree, path, v) ==
    \/ tree[path].readOnly
    \/ /\ Fits(tree[path].kind, v)
       /\ tree[path].kind \in {"array", "struct", "namespace"}
       /\ \E m \in Members(tree, path, v) : TouchesReadOnly(tree, m[1], m[2])

\* The last operation was a $set whose only fault is the shape of its value
MisshapedWrite ==
    /\ sym.last.op = "set"
    /\ Mismatch(sym.tree, sym.last.path, sym.last.input)
    /\ ~Foreign(sym.tree, sym.last.path, sym.last.input)
    /\ ~TouchesReadOnly(sym.tree, sym.last.path, sym.last.input)

\* C22: a write whose value does not match the shape of the node (an object or
\* array for a leaf, a scalar or array for a struct, a non-array for an array, a
\* wrongly typed leaf value anywhere inside) fails with
\* TcBindingInvalidTypeException and nothing of the call reaches the transport.
C22_MisshapedRejected == MisshapedWrite => RejectedWith("TcBindingInvalidTypeException")

\* The case C22 is about: a composite value with a wrongly typed member next to
\* a valid one was written
C22_WrongMemberWritten ==
    /\ MisshapedWrite
    /\ sym.tree[sym.last.path].kind = "struct"
    /\ Fits("struct", sym.last.input)
    /\ Len(sym.last.input.s) = 2
    /\ sym.last.sent = <<>>

\* Whether the type of the symbol at `path` carries the readonly attribute: the
\* declared symbol's attribute or its registered type's flag for a symbol of the
\* namespace, the member's or element's type flag below it
TypeReadOnly(path) ==
    IF Len(path) = 1
    THEN \/ Declared(sym.declared[path[1]].attributes, "readonly") # None
         \/ sym.types[sym.declared[path[1]].type].readOnly
    ELSE IF sym.types[sym.declared[path[1]].type].kind = "array"
    THEN sym.types[sym.declared[path[1]].type].child[1].readOnly
    ELSE sym.types[sym.declared[path[1]].type].children[path[2]].type.readOnly

\* The symbols of the model below the namespace, two levels deep
Symbols == {q \in DOMAIN sym.tree : Len(q) \in {1, 2}}

\* C23: a symbol is read-only if and only if its type carries the readonly
\* attribute or its parent symbol is read-only; on a read-only symbol $set of any
\* value and $clear fail with TcBindingReadOnlyException and send nothing, while
\* $get succeeds.
C23_ReadOnly ==
    /\ \A q \in Symbols :
          sym.tree[q].readOnly
              <=> (TypeReadOnly(q) \/ sym.tree[SubSeq(q, 1, Len(q) - 1)].readOnly)
    /\ (sym.last.op # "none" /\ sym.tree[sym.last.path].readOnly) =>
          IF sym.last.op = "get" THEN sym.last.err = ""
          ELSE RejectedWith("TcBindingReadOnlyException")

\* The case C23 is about: a value of the wrong shape was written to a symbol
\* that is read-only through its parent only
C23_InheritedRejected ==
    /\ sym.last.op = "set"
    /\ sym.last.path \in Symbols
    /\ sym.tree[sym.last.path].readOnly /\ ~TypeReadOnly(sym.last.path)
    /\ ~Fits(sym.tree[sym.last.path].kind, sym.last.input)
    /\ sym.last.err = "TcBindingReadOnlyException"

\* The last operation was a $set of an object on a writable struct or namespace,
\* and the object has a key that is no declared child
UndeclaredKeyWrite ==
    /\ sym.last.op = "set"
    /\ sym.tree[sym.last.path].kind \in {"struct", "namespace"}
    /\ ~sym.tree[sym.last.path].readOnly
    /\ sym.last.input.t = "object"
    /\ \E k \in 1..Len(sym.last.input.s) :
          \A j \in 1..Len(sym.tree[sym.last.path].children) :
             sym.tree[sym.last.path].children[j].key # sym.last.input.s[k].k

\* C24: a write on a struct or namespace whose value contains a key that is not
\* a declared child fails with TcBindingOutOfRangeException.
C24_UndeclaredKey == UndeclaredKeyWrite => RejectedWith("TcBindingOutOfRangeException")

\* The case C24 is about: an object with declared keys and one undeclared key was
\* written to a struct and rejected
C24_UndeclaredKeyRejected ==
    /\ UndeclaredKeyWrite
    /\ sym.tree[sym.last.path].kind = "struct"
    /\ Len(sym.last.input.s) = 3
    /\ sym.last.err # ""

\* The steps of the last invalidation on a symbol below `path`, up to step j
StepsBelow(path, j) ==
    {sym.last.order[i] : i \in {i \in 1..j : /\ Len(sym.last.order[i].path) > Len(path)
                                            /\ sym.last.order[i].path
                                                  \in Subtree(sym.tree, path)}}

\* The steps an invalidation takes on the symbols strictly below `path`: the
\* binding of each, and the callback of each that has one
StepsDue(path) ==
    {[step |-> "binding", path |-> q] : q \in Subtree(sym.tree, path) \ {path}}
        \cup {[step |-> "callback", path |-> q] :
                 q \in {q \in Subtree(sym.tree, path) \ {path} :
                           sym.callbacks[q] # "none"}}

\* Whenever the last invalidation took a step on a symbol, it had taken every
\* step due below that symbol, and took none of them afterwards
ChildrenFirst ==
    sym.last.op = "invalidate" =>
        \A j \in 1..Len(sym.last.order) :
            StepsBelow(sym.last.order[j].path, j) = StepsDue(sym.last.order[j].path)
            /\ StepsBelow(sym.last.order[j].path, Len(sym.last.order))
                  = StepsDue(sym.last.order[j].path)

\* C26: when a namespace, struct or array is invalidated, the binding of each of
\* its descendants is invalidated and the descendant's $onInvalidated callback is
\* called before either happens to any ancestor of the descendant (the callbacks
\* are those registered when the invalidation starts).
C26_ChildrenFirst == [][sym'.callbacks = sym.callbacks => ChildrenFirst']_vars

\* The case C26 is about: a composite with a callback was invalidated, a symbol
\* below it has a callback too, and both were called
C26_BothCalled ==
    /\ sym.last.op = "invalidate"
    /\ Len(sym.last.called) = 2
    /\ Len(sym.last.called[1]) > Len(sym.last.called[2])
    /\ sym.last.called[1] \in Subtree(sym.tree, sym.last.called[2])

\* The declaration carries the attribute of that name, as it is written
Attributed(d, name) == \E k \in 1..Len(d.attributes) : d.attributes[k].name = name

\* The keys of the children of the symbol at path q, and of an object value
ChildKeys(q) == {sym.tree[q].children[k].key : k \in 1..Len(sym.tree[q].children)}
ValueKeys(v) == {v.s[k].k : k \in 1..Len(v.s)}

\* The declared symbols and the declared members of ST carrying the attribute,
\* and those carrying no attribute at all
SymbolsWith(name) ==
    {SymbolName(sym.declared[k].name) :
        k \in {k \in 1..Len(sym.declared) : Attributed(sym.declared[k], name)}}
MembersWith(name) ==
    {sym.members[k].name : k \in {k \in 1..Len(sym.members) :
                                      Attributed(sym.members[k], name)}}
PlainMembers ==
    {sym.members[k].name : k \in {k \in 1..Len(sym.members) :
                                      sym.members[k].attributes = <<>>}}
PlainSymbols ==
    {SymbolName(sym.declared[k].name) :
        k \in {k \in 1..Len(sym.declared) :
                 /\ sym.declared[k].attributes = <<>>
                 /\ sym.declared[k].type = "ST" => PlainMembers # {}}}

\* The struct symbols
Structs == {q \in DOMAIN sym.tree : sym.tree[q].kind = "struct"}

\* A symbol or struct member declared with the attribute of that name gets no
\* symbol: it is no child of its parent and no key of a $get result, the
\* siblings declared without attribute remain, and a struct whose members are
\* all declared with it is absent
Dropped(name) ==
    /\ ChildKeys(NsPath) \cap SymbolsWith(name) = {}
    /\ PlainSymbols \subseteq ChildKeys(NsPath)
    /\ \A q \in Structs :
          /\ ChildKeys(q) \cap MembersWith(name) = {}
          /\ PlainMembers \subseteq ChildKeys(q)
    /\ (sym.members # <<>> /\ Len(sym.members) = Cardinality(MembersWith(name)))
          => Structs = {}
    /\ (sym.last.op = "get" /\ sym.last.err = "" /\ sym.last.path = NsPath)
          => ValueKeys(sym.last.value) \cap SymbolsWith(name) = {}
    /\ (sym.last.op = "get" /\ sym.last.err = "" /\ sym.last.path \in Structs)
          => ValueKeys(sym.last.value) \cap MembersWith(name) = {}

\* C27: a symbol or struct member declared with the attribute written 'Ignore'
\* gets no TcSymbol: it is absent from its parent's children and from $get
\* results, its siblings remain, and a struct left with no children is absent.
C27_IgnoreDropped == Dropped("Ignore")

\* The case C27 is about: a struct has a member declared with 'Ignore' and was
\* read
C27_IgnoreMemberRead ==
    /\ sym.last.op = "get" /\ sym.last.err = ""
    /\ sym.last.path \in Structs
    /\ MembersWith("Ignore") # {}

\* The array symbols, and the pointer of a symbol
Arrays == {q \in DOMAIN sym.tree : sym.tree[q].kind = "array"}
PointerOf(q) == <<sym.tree[q].indexGroup, sym.tree[q].indexOffset, sym.tree[q].size>>

\* The bytes a symbol covers
ByteRange(q) == sym.tree[q].indexOffset .. (sym.tree[q].indexOffset + sym.tree[q].size - 1)

\* The size of an element of the array type of MAIN.s1
ElementSize == sym.types[sym.declared[1].type].child[1].size

\* The pointer of the i-th child (from 0) of the array at (g, o, n): the i-th
\* element at the innermost dimension, the i-th of `length` equal parts otherwise
ChildPointer(q, i, innermost) ==
    IF innermost
    THEN <<sym.tree[q].indexGroup, sym.tree[q].indexOffset + i * ElementSize, ElementSize>>
    ELSE <<sym.tree[q].indexGroup,
           sym.tree[q].indexOffset + i * (sym.tree[q].size \div sym.tree[q].length),
           sym.tree[q].size \div sym.tree[q].length>>

\* The children of the array at q have the keys startIndex + i and the pointers
\* of ChildPointer, for the arrays with one of the given start indices
ChildrenPlaced(q) ==
    /\ Len(sym.tree[q].children) = sym.tree[q].length
    /\ \A k \in 1..Len(sym.tree[q].children) :
          /\ sym.tree[q].children[k].index = sym.tree[q].startIndex + k - 1
          /\ PointerOf(sym.tree[q].children[k].path)
                = ChildPointer(q, k - 1,
                               sym.tree[sym.tree[q].children[k].path].kind # "array")

\* The byte ranges of the children of the array at q are pairwise disjoint and
\* lie inside the range of the array
ChildrenInside(q) ==
    \A k \in 1..Len(sym.tree[q].children) :
        /\ ByteRange(sym.tree[q].children[k].path) \subseteq ByteRange(q)
        /\ \A j \in 1..Len(sym.tree[q].children) :
              j # k => ByteRange(sym.tree[q].children[k].path)
                          \cap ByteRange(sym.tree[q].children[j].path) = {}

\* C28: for every array symbol at pointer (g, o, n), at the innermost dimension
\* (startIndex, length) with element size s the child with key startIndex + i has
\* the pointer (g, o + i*s, s); at an outer dimension of length L the proxy child
\* i has the pointer (g, o + i*n/L, n/L); so for every start index the byte
\* ranges of the children are pairwise disjoint and lie inside [o, o + n).
C28_ArrayPointers == \A q \in Arrays : ChildrenPlaced(q) /\ ChildrenInside(q)

\* The case C28 is about: an array of two dimensions with a start index other
\* than 0 was read
C28_ShiftedGridRead ==
    /\ sym.last.op = "get" /\ sym.last.err = ""
    /\ sym.last.path \in Arrays
    /\ sym.tree[sym.last.path].startIndex # 0
    /\ \E k \in 1..Len(sym.tree[sym.last.path].children) :
          sym.tree[sym.last.path].children[k].path \in Arrays

\* __adsTypeProcess has awaited the resolution of the entry's parent, and it failed
ParentFailed ==
    /\ reg.pc = "run" /\ reg.stack # <<>>
    /\ Top(reg).f = "process" /\ Top(reg).ph = 1
    /\ reg.ret = None

\* __adsTypeRegister has awaited __adsTypeProcess of its entry, and it returned none
ProcessFailed ==
    /\ reg.pc = "run" /\ reg.stack # <<>>
    /\ Top(reg).f = "register" /\ Top(reg).ph = 1
    /\ reg.ret = None

\* The running function returns none with this step
ReturnsNone ==
    /\ reg'.stack = SubSeq(reg.stack, 1, Len(reg.stack) - 1)
    /\ reg'.ret = None

\* C29: a raw entry with a parent (a parent name other than its own, present in
\* the catalogue with the same wire kind) whose resolution fails is not
\* registered: its own resolution returns none, and the raw entry is deleted
\* from the working catalogue, whatever its wire kind.
C29_ParentFailure ==
    [][/\ ParentFailed => ReturnsNone
       /\ ProcessFailed =>
             /\ ReturnsNone
             /\ Lower(reg.objs[Top(reg).id].name) \notin reg'.live
             /\ reg'.map = reg.map]_vars

\* The case C29 is about: the parent of a struct entry that has members of its
\* own was resolved and failed
C29_ParentOfStructFailed ==
    /\ ParentFailed
    /\ reg.objs[Top(reg).id].subItems # <<>>

\* No call of the transport has failed and no run was rejected
NoFailure == \A r \in 1..Len(ctx.runs) : ctx.runs[r].pc # "failed" /\ ~ctx.runs[r].failed

\* The clients a run in progress is opening or closing
ClientsInHand ==
    {ctx.runs[r].client : r \in {r \in 1..Len(ctx.runs) : ctx.runs[r].pc # "done"}}

\* C30: under every interleaving of reinitialize() runs and initialize calls the
\* coordinator never has more than one open transport client or more than one
\* change-counter subscription at a time, and no client it opened stays
\* connected after being replaced (as long as the transport fails no call).
C30_OneClient ==
    NoFailure =>
        /\ Cardinality(ctx.connected) <= 1
        /\ Cardinality(ctx.subscribed) <= 1
        /\ ctx.connected \subseteq {ctx.ads} \cup ClientsInHand

\* The case C30 is about: a second run of reinitialize() began while the first
\* was in progress, and both have ended
C30_OverlappedRunsEnded ==
    /\ ctx.overlapped
    /\ Len(ctx.runs) = 2
    /\ Quiet(ctx)
    /\ NoFailure

\* The position of the first '.' of a name, 0 when it has none
FirstDot(name) ==
    IF \E i \in 1..Len(name) : name[i] = "."
    THEN CHOOSE i \in 1..Len(name) :
            name[i] = "." /\ \A j \in 1..(i - 1) : name[j] # "."
    ELSE 0

\* The part of a name before its first '.', and the whole of it after
BeforeDot(name) == SubSeq(name, 1, FirstDot(name) - 1)
AfterDot(name) == SubSeq(name, FirstDot(name) + 1, Len(name))

\* Whether the symbol of a path is a child of the namespace under the key
Under(map, namespace, key, path) ==
    \E k \in 1..Len(map) :
        /\ map[k].name = namespace
        /\ \E c \in 1..Len(map[k].children) :
              map[k].children[c] = [key |-> key, path |-> path]

\* C39: each raw symbol is attached to the namespace named by the part of its
\* name before the first '.', under the key equal to the whole remainder after
\* that '.'; two raw symbols of different names never end up under the same
\* key of the same namespace.
C39_FirstDotSplit ==
    ns.create.pc \in {"created", "failed"} =>
        /\ \A i \in 1..Len(ns.create.symbols) :
              FirstDot(ns.create.symbols[i]) # 0 =>
                  Under(ns.map, BeforeDot(ns.create.symbols[i]),
                        AfterDot(ns.create.symbols[i]), ns.create.symbols[i])
        /\ \A k \in 1..Len(ns.map) :
              \A c \in 1..Len(ns.map[k].children), d \in 1..Len(ns.map[k].children) :
                  c # d => ns.map[k].children[c].key # ns.map[k].children[d].key

\* create() attached two symbols to one namespace under the remainders of their
\* names
C39_TwoAttached ==
    /\ ns.create.pc = "created"
    /\ Len(ns.map) = 1 /\ Len(ns.map[1].children) = 2
    /\ \A i \in 1..2 :
          /\ FirstDot(ns.create.symbols[i]) # 0
          /\ Under(ns.map, BeforeDot(ns.create.symbols[i]),
                   AfterDot(ns.create.symbols[i]), ns.create.symbols[i])

\* C38: clone(mutator) and extend(raw) never change the type they are called on:
\* every object that existed before a call, the original and every other clone
\* of it, has all its attributes unchanged after the call.
C38_CloneFrame ==
    [][\A type \in 1..Len(reg.heap) : reg'.heap[type] = reg.heap[type]]_vars

\* Two clones of one type came out with different attributes, one of them
\* read-only, and the type they were cloned from is not read-only
C38_ClonesDiffer ==
    \E b \in 1..Len(reg.heap), c \in 1..Len(reg.heap) :
        /\ b # c /\ reg.from[b] # 0 /\ reg.from[b] = reg.from[c]
        /\ reg.cloned.this = reg.from[b] /\ reg.cloned.out = c
        /\ reg.heap[b].readOnly /\ ~reg.heap[c].readOnly
        /\ reg.heap[c].offset # reg.heap[reg.from[c]].offset
        /\ ~reg.heap[reg.from[b]].readOnly

\* A source change was detected: 'sourceChanged' was emitted and reinitialize()
\* called
Detected == \E e \in 1..Len(ctx.events) : ctx.events[e].name = "sourceChanged"

\* 'reinitialized' was emitted, no run is in progress, the context holds a
\* connected client, and the namespace map holds valid symbols built from the
\* catalogue of the last change detected
Rebuilt ==
    /\ \E e \in 1..Len(ctx.events) : ctx.events[e].name = "reinitialized"
    /\ Quiet(ctx)
    /\ ctx.ads # 0 /\ ctx.ads \in ctx.connected
    /\ ctx.map # 0 /\ ctx.handles[ctx.map].ns /\ ctx.handles[ctx.map].s
    /\ ctx.catalogue >= ctx.detected

\* C37: if a source change is detected, once or several times in a row before
\* the rebuild has finished, and every call of the transport succeeds, then
\* eventually `reinitialized` has been emitted and the context is connected with
\* a namespace map of valid symbols of the latest catalogue.
C37_EventuallyRebuilt == Detected ~> Rebuilt

\* A change was detected and the context was rebuilt from the changed catalogue
C37_RebuiltAfterChange == Detected /\ Rebuilt /\ ctx.catalogue > 0

\* The runs of reinitialize() that threw to their caller after the build of a
\* registry had failed in them
BuildFailures ==
    {r \in 1..Len(ctx.runs) : ctx.runs[r].pc = "failed" /\ ctx.errors[r].build}

\* The exceptions a failed build of the type or symbol registry throws
BuildErrors == {"TcComTypeQueryException", "TcComSymbolQueryException",
                "TcComIsInvalidException"}

\* C36: if the build of the type registry or of the symbol registry fails during
\* reinitialize(), the transport is disconnected before the error reaches the
\* caller, the caller receives the build error, and `reinitialized` is not emitted.
C36_BuildFailure ==
    \A r \in BuildFailures :
        /\ ctx.errors[r].client \notin ctx.connected
        /\ ctx.errors[r].err \in BuildErrors
        /\ \A e \in 1..Len(ctx.events) :
              ctx.events[e] # Event("reinitialized", r)

\* A run whose build failed disconnected its client and threw the build error
C36_BuildErrorThrown ==
    \E r \in BuildFailures :
        /\ ctx.errors[r].err \in BuildErrors
        /\ ctx.errors[r].client # 0
        /\ ctx.connected = {}

\* extend(raw) was called on a numeric type with a descriptor of its wire type
Extended == reg.ext.pc = "extended" /\ reg.ext.raw[1].adsDataType = reg.ext.this[1].adst

\* What extend returned is of the given kind
ExtendedTo(kind) == reg.ext.out # None /\ reg.ext.out[1].kind = kind

\* C35: extend(raw) on a numeric type yields an Array whose element is that type
\* when raw has array dimensions, also when raw carries enum fields; an Enum only
\* when the dimensions are empty and enum fields are present; otherwise a mutated
\* clone of the numeric type.
C35_ExtendKinds ==
    Extended =>
        /\ reg.ext.raw[1].arrayData # <<>> =>
              ExtendedTo("array") /\ reg.ext.out[1].child = reg.ext.this
        /\ ExtendedTo("enum") =>
              reg.ext.raw[1].arrayData = <<>> /\ reg.ext.raw[1].enumInfo # None
        /\ reg.ext.raw[1].arrayData = <<>> /\ reg.ext.raw[1].enumInfo = None =>
              /\ ExtendedTo("numeric")
              /\ reg.ext.out[1].name = reg.ext.this[1].name
              /\ reg.ext.out[1].size = reg.ext.this[1].size

\* extend with array dimensions and no enum fields returned an Array of the type
C35_ArrayOfNumeric ==
    /\ Extended
    /\ reg.ext.raw[1].arrayData # <<>>
    /\ ExtendedTo("array")
    /\ reg.ext.out[1].child = reg.ext.this

\* A caller awaited $subscribe() and then $unsubscribe() on the binding, which is
\* valid, and $subscribe was not called again
SubscribedAndUnsubscribed == sub.awaited = "unsubscribe" /\ sub.valid

\* C34: after a caller awaited $subscribe() and then awaited $unsubscribe() on a
\* valid symbol, no transport subscription of the binding is live and no change
\* event is emitted for it until $subscribe is called again.
C34_UnsubscribeEnds ==
    SubscribedAndUnsubscribed => sub.live = {} /\ ~sub.changed

\* The $unsubscribe the caller awaited removed the subscription the $subscribe
\* had installed
C34_HandleRemoved ==
    /\ SubscribedAndUnsubscribed
    /\ sub.handles > 0
    /\ sub.live = {}
    /\ sub.calls = <<>>

\* The last call was $subscribe, $unsubscribe or a method, made on the binding
\* after it was invalidated
PublicCallOnInvalid ==
    /\ sub.last.op \in {"subscribe", "unsubscribe", "method"}
    /\ ~sub.last.valid

\* C33: after a binding is invalidated, $subscribe, $unsubscribe and a method
\* call fail with TcBindingIsInvalidException, the caller of $subscribe,
\* $unsubscribe or the method receives that failure, and no transport call is made.
C33_InvalidFails ==
    PublicCallOnInvalid =>
        /\ sub.last.caller = "TcBindingIsInvalidException"
        /\ ~sub.last.transport

\* $unsubscribe on an invalidated binding that still holds a subscription was
\* rejected
C33_UnsubscribeRejected ==
    /\ PublicCallOnInvalid
    /\ sub.last.op = "unsubscribe"
    /\ sub.last.had
    /\ sub.last.caller = "TcBindingIsInvalidException"

RECURSIVE LeafOrder(_, _)
\* The leaves below the symbol at `path` in the order of declaration (the
\* elements of an array by ascending index)
LeafOrder(tree, path) ==
    IF tree[path].children = <<>> THEN <<path>>
    ELSE Flatten([k \in 1..Len(ChildrenEntries(tree[path])) |->
                    LeafOrder(tree, ChildrenEntries(tree[path])[k].path)])

\* The place, in that order, of the leaf a data package is written to
LeafRank(order, item) ==
    CHOOSE k \in 1..Len(order) :
        /\ sym.tree[order[k]].indexGroup = item.indexGroup
        /\ sym.tree[order[k]].indexOffset = item.indexOffset

\* The packages 1..Len(items) follow the order
InOrder(order, items) ==
    \A i, j \in 1..Len(items) : i < j => LeafRank(order, items[i]) < LeafRank(order, items[j])

\* C32: the write packages one successful composite write hands to the transport
\* are ordered by the composite's declaration order of children (for arrays by
\* ascending index), whatever the order of the keys in the caller's value.
C32_DeclarationOrder ==
    CompositeWrite => InOrder(LeafOrder(sym.tree, sym.last.path), SentItems)

\* A composite write of two packages or more whose value had the keys in an order
\* other than the declared one
C32_ReorderedWrite ==
    /\ CompositeWrite
    /\ Len(SentItems) >= 2
    /\ sym.tree[sym.last.path].kind \in {"struct", "namespace"}
    /\ sym.last.input # FullValue(sym.tree, sym.last.path)

\* The flights that handed a write or clear request to the transport while their
\* binding was invalid, and the reads that returned a value while it was
LateWrites ==
    {i \in 1..Len(sym.flights) :
        /\ sym.flights[i].op \in {"set", "clear"}
        /\ \E k \in 1..Len(sym.flights[i].handed) : ~sym.flights[i].handed[k].valid}
LateReads ==
    {i \in 1..Len(sym.flights) :
        /\ sym.flights[i].op = "get"
        /\ sym.flights[i].pc = "done"
        /\ ~sym.flights[i].valid}

\* C31: under every interleaving of kill() with the operations in flight on a
\* binding, no write or clear package of the binding is handed to the transport
\* after the binding was invalidated, and no read that completes after the
\* invalidation returns a decoded value: it fails.
C31_NothingAfterInvalidate == LateWrites = {} /\ LateReads = {}

\* A read whose answer arrived after kill() had invalidated its binding failed
\* with TcBindingIsInvalidException, the client still connected
C31_ReadEndedInvalid ==
    \E i \in 1..Len(sym.flights) :
        /\ sym.flights[i].op = "get"
        /\ sym.flights[i].pc = "failed"
        /\ sym.flights[i].err = "TcBindingIsInvalidException"
        /\ sym.flights[i].handed # <<>>
        /\ com.ads

\* The enum leaves, and the qualified field names of one ($fields)
EnumLeaves == {q \in DOMAIN sym.tree : sym.tree[q].kind = "enum"}
QualifiedNames(q) == {sym.tree[q].fields[k] : k \in 1..Len(sym.tree[q].fields)}

\* The last call wrote a string to a writable enum leaf
EnumWrite ==
    /\ sym.last.op = "set"
    /\ sym.last.path \in EnumLeaves
    /\ ~sym.tree[sym.last.path].readOnly
    /\ sym.last.input.t = "string"

\* The last call read an enum leaf
EnumRead ==
    /\ sym.last.op = "get"
    /\ sym.last.path \in EnumLeaves
    /\ sym.last.err = ""

\* C25: on an enum leaf of type T a write of the string s succeeds exactly when s
\* is one of the qualified field names T.member; any other string, the bare
\* member name among them, fails with TcBindingOutOfRangeException; and every
\* read returns one of the qualified field names.
C25_EnumNames ==
    /\ EnumWrite =>
          IF sym.last.input.s \in QualifiedNames(sym.last.path)
          THEN sym.last.err = ""
          ELSE RejectedWith("TcBindingOutOfRangeException")
    /\ EnumRead => sym.last.value.s \in QualifiedNames(sym.last.path)

\* The case C25 is about: the bare member name was written to an enum leaf and
\* rejected as out of range
C25_BareNameRejected ==
    /\ EnumWrite
    /\ sym.last.input = VStr(Chars("A"))
    /\ sym.last.err = "TcBindingOutOfRangeException"

\* The borders a numeric leaf declares, or the range of INT
DeclaredLower ==
    IF Declared(sym.declared[1].attributes, "lowerborder") # None
    THEN ParseFloat(Declared(sym.declared[1].attributes, "lowerborder")[1])
    ELSE INT16_MIN
DeclaredUpper ==
    IF Declared(sym.declared[1].attributes, "upperborder") # None
    THEN ParseFloat(Declared(sym.declared[1].attributes, "upperborder")[1])
    ELSE INT16_MAX

\* What the last $set passed for the leaf MAIN.s1: the value itself, or the
\* entry of the object passed to the namespace
LeafInput ==
    IF sym.last.path = <<1>> THEN sym.last.input ELSE sym.last.input.s[1].v

\* The last operation was a $set of a number that reaches the writable numeric
\* leaf MAIN.s1
NumericWrite ==
    /\ sym.last.op = "set"
    /\ sym.tree[<<1>>].kind = "numeric" /\ ~sym.tree[<<1>>].readOnly
    /\ LeafInput.t = "number"

\* C17: a write of v to a numeric leaf with borders [lower, upper] is accepted
\* only if lower <= v <= upper, and then the controller holds v; any other number
\* (upper + 1 and lower - 1 among them) fails with TcBindingOutOfRangeException,
\* sends nothing and leaves the controller as it was.
C17_WriteInBorders ==
    NumericWrite =>
        IF DeclaredLower <= LeafInput.n /\ LeafInput.n <= DeclaredUpper
        THEN /\ sym.last.err = ""
             /\ BindingRead(sym.tree, sym.valid, sym.mem, <<1>>).value = LeafInput
        ELSE /\ sym.last.err = "TcBindingOutOfRangeException"
             /\ sym.last.sent = <<>>
             /\ sym.mem = sym.last.before

\* The case C17 is about: upper + 1 or lower - 1 was written to a leaf that
\* declares its borders
C17_BorderCrossed ==
    /\ NumericWrite
    /\ Declared(sym.declared[1].attributes, "lowerborder") # None
    /\ LeafInput.n \in {DeclaredUpper + 1, DeclaredLower - 1}
    /\ sym.last.err = "TcBindingOutOfRangeException"

-----------------------------------------------------------------------------
(* Specifications                                                          *)

InitSplit ==
    /\ com = ComIdle /\ ns = NsIdle /\ reg = RegIdle
    /\ sym = SymIdle /\ sub = SubIdle /\ ctx = CtxIdle
NextSplit == ComWrite \/ ComRead \/ ComTransportCall \/ ComTransportFail \/ ComToggleAds
             \/ ComReturn
SpecSplit == InitSplit /\ [][NextSplit]_vars

InitNs ==
    /\ com = ComIdle /\ ns = NsIdle /\ reg = RegIdle
    /\ sym = SymIdle /\ sub = SubIdle /\ ctx = CtxIdle
NextNs == NsAddChild \/ NsNew
SpecNs == InitNs /\ [][NextNs]_vars

InitTypes ==
    /\ com = ComIdle /\ ns = NsIdle /\ reg = RegIdle
    /\ sym = SymIdle /\ sub = SubIdle /\ ctx = CtxIdle
NextTypes == RegCreate \/ RegLoop \/ RegRegister \/ RegProcess \/ RegChildren \/ RegDestroy
SpecTypes == InitTypes /\ [][NextTypes]_vars

\* The type registry built from a catalogue of numeric types
NextNumeric ==
    RegCreateNumeric \/ RegLoop \/ RegRegister \/ RegProcess \/ RegChildren \/ RegDestroy
SpecNumeric == InitTypes /\ [][NextNumeric]_vars

\* The operations on the symbols of one namespace
InitSymbols ==
    /\ com = ComIdle /\ ns = NsIdle /\ reg = RegIdle /\ sub = SubIdle /\ ctx = CtxIdle
    /\ \E type1 \in {"BOOL", "INT", "ST", "ARRAY OF BOOL", "NEST"},
          attributes1 \in {<<>>, ReadOnlyAttr}, second \in BOOLEAN,
          aAttributes \in {<<>>, ReadOnlyAttr, DefaultTrueAttr},
          nAttributes \in {<<>>, ReadOnlyAttr}, startIndex \in {0, 1}, byte \in {0, 1} :
            /\ second => type1 = "BOOL"
            /\ sym = SymCreated(SymbolCatalogue(type1, attributes1, second, <<>>),
                             TypeMap(aAttributes, nAttributes, startIndex), byte, "")
NextSymbols == SymGet \/ SymSet \/ SymClear
SpecSymbols == InitSymbols /\ [][NextSymbols]_vars

\* One leaf of any kind below the namespace, with the attributes it may declare
InitLeaf ==
    /\ com = ComIdle /\ ns = NsIdle /\ reg = RegIdle /\ sub = SubIdle /\ ctx = CtxIdle
    /\ \E type1 \in {"BOOL", "INT", "STRING"}, byte \in {0, 1} :
          \E attributes1 \in LeafAttributes(type1) :
            sym = SymCreated(SymbolCatalogue(type1, attributes1, FALSE, <<>>),
                             TypeMap(<<>>, <<>>, 0), byte, "")
\* Arrays with a negative, zero and positive start index, alone and in a struct
InitArray ==
    /\ com = ComIdle /\ ns = NsIdle /\ reg = RegIdle /\ sub = SubIdle /\ ctx = CtxIdle
    /\ \E type1 \in {"ARRAY OF BOOL", "NEST"}, attributes1 \in {<<>>, ReadOnlyAttr},
          startIndex \in {-1, 0, 1}, byte \in {0, 1} :
            sym = SymCreated(SymbolCatalogue(type1, attributes1, FALSE, <<>>),
                             TypeMap(<<>>, <<>>, startIndex), byte, "")
NextArray == SymGet \/ SymSetArray \/ SymClear
SpecArray == InitArray /\ [][NextArray]_vars

\* Symbols of every kind, writable and read-only, written with values of any shape
InitShape ==
    /\ com = ComIdle /\ ns = NsIdle /\ reg = RegIdle /\ sub = SubIdle /\ ctx = CtxIdle
    /\ \E type1 \in {"BOOL", "STRING", "ST", "ARRAY OF BOOL"},
          attributes1 \in {<<>>, ReadOnlyAttr}, aAttributes \in {<<>>, ReadOnlyAttr} :
            /\ aAttributes # <<>> => type1 = "ST"
            /\ sym = SymCreated(SymbolCatalogue(type1, attributes1, FALSE, <<>>),
                                TypeMap(aAttributes, <<>>, 0), 0, "")
NextShape == SymGet \/ SymSetShape \/ SymClear
SpecShape == InitShape /\ [][NextShape]_vars

\* An enum leaf below the namespace, writable or read-only, alone or beside a
\* boolean; the controller holds the value of a member
InitEnum ==
    /\ com = ComIdle /\ ns = NsIdle /\ reg = RegIdle /\ sub = SubIdle /\ ctx = CtxIdle
    /\ \E attributes1 \in {<<>>, ReadOnlyAttr}, second \in BOOLEAN, byte \in {0, 1} :
            sym = SymCreated(SymbolCatalogue("E", attributes1, second, <<>>),
                             TypeMap(<<>>, <<>>, 0), byte, "")
NextEnum == SymGet \/ SymSetEnum \/ SymClear
SpecEnum == InitEnum /\ [][NextEnum]_vars

\* A boolean or a struct beside a boolean, each symbol and each member of the
\* struct declared with no attribute, with 'Ignore' or with 'Ignored'
InitIgnore ==
    /\ com = ComIdle /\ ns = NsIdle /\ reg = RegIdle /\ sub = SubIdle /\ ctx = CtxIdle
    /\ \E type1 \in {"BOOL", "ST"} :
       \E attributes1 \in {<<>>, IgnoreAttr, IgnoredAttr},
          attributes2 \in {<<>>, IgnoreAttr, IgnoredAttr},
          aAttributes \in {<<>>, IgnoreAttr, IgnoredAttr},
          nAttributes \in {<<>>, IgnoreAttr, IgnoredAttr} :
            /\ type1 = "BOOL" => aAttributes = <<>> /\ nAttributes = <<>>
            /\ sym = [SymCreated(SymbolCatalogue(type1, attributes1, TRUE, attributes2),
                                 TypeMap(aAttributes, nAttributes, 0), 0, "")
                        EXCEPT !.members =
                           IF type1 = "ST"
                           THEN StructInfo(aAttributes, nAttributes).subItems
                           ELSE <<>>]
NextIgnore == SymGet \/ SymSetWhole \/ SymClear
SpecIgnore == InitIgnore /\ [][NextIgnore]_vars

\* An array of one and of two dimensions, with a negative, zero and positive
\* start index
InitGrid ==
    /\ com = ComIdle /\ ns = NsIdle /\ reg = RegIdle /\ sub = SubIdle /\ ctx = CtxIdle
    /\ \E type1 \in {"ARRAY OF BOOL", "GRID"}, startIndex \in {-1, 0, 1},
          byte \in {0, 1} :
            sym = SymCreated(SymbolCatalogue(type1, <<>>, FALSE, <<>>),
                             TypeMap(<<>>, <<>>, startIndex), byte, "")
NextGrid == SymGet \/ SymSetWhole \/ SymClear
SpecGrid == InitGrid /\ [][NextGrid]_vars

NextLeaf == SymGet \/ SymSetLeaf \/ SymClear
SpecLeaf == InitLeaf /\ [][NextLeaf]_vars

\* Invalidation of the symbols of one namespace, with $onInvalidated callbacks
InitInvalidate ==
    /\ com = ComIdle /\ ns = NsIdle /\ reg = RegIdle /\ sub = SubIdle /\ ctx = CtxIdle
    /\ \E type1 \in {"ST", "ARRAY OF BOOL"} :
            sym = SymCreated(SymbolCatalogue(type1, <<>>, FALSE, <<>>),
                             TypeMap(<<>>, <<>>, 0), 0, "")
NextInvalidate == SymOnInvalidated \/ SymInvalidate \/ SymGet \/ SymSetWhole \/ SymClear
SpecInvalidate == InitInvalidate /\ [][NextInvalidate]_vars

\* The events of the symbols of one namespace, with listeners for one event name
InitEvents ==
    /\ com = ComIdle /\ ns = NsIdle /\ reg = RegIdle /\ sub = SubIdle /\ ctx = CtxIdle
    /\ \E type1 \in {"BOOL", "ST"}, watch \in {"set", "get", "cleared"} :
            sym = SymCreated(SymbolCatalogue(type1, <<>>, FALSE, <<>>),
                             TypeMap(<<>>, <<>>, 0), 0, watch)
NextEvents == SymOn \/ SymGet \/ SymSetWhole \/ SymClear
SpecEvents == InitEvents /\ [][NextEvents]_vars

\* $subscribe and $unsubscribe on one valid binding
InitSub ==
    /\ com = ComIdle /\ ns = NsIdle /\ reg = RegIdle /\ sym = SymIdle /\ ctx = CtxIdle
    /\ sub = [SubIdle EXCEPT !.valid = TRUE]
NextSub == SubSubscribe \/ SubInstalled \/ SubRejected \/ SubUnsubscribe \/ SubRemoved
           \/ SubNotify \/ SubInvalidate
SpecSub == InitSub /\ [][NextSub]_vars

\* The same with the methods of a struct symbol
NextPublic == NextSub \/ SubCallMethod
SpecPublic == InitSub /\ [][NextPublic]_vars

\* The context from TcContext.create on, with the default reaction to a source change
InitCtx ==
    /\ com = ComIdle /\ ns = NsIdle /\ reg = RegIdle /\ sym = SymIdle /\ sub = SubIdle
    /\ ctx \in {CtxCreatedWith(onSourceChange) :
                   onSourceChange \in {"reinitialize", "injected"}}
NextCtx == CtxPlcChange \/ CtxNotify \/ CtxUnsubscribeAll \/ CtxDisconnect \/ CtxKilled
           \/ CtxConnect \/ CtxSubscribe \/ CtxTypes \/ CtxSymbols \/ CtxGet
           \/ CtxOnInvalidated
SpecCtx == InitCtx /\ [][NextCtx]_vars

NextKill == NextCtx \/ CtxKill
SpecKill == InitCtx /\ [][NextKill]_vars

\* Runs of reinitialize() that may overlap, each step answered by the transport
NextOverlap == CtxReinitialize \/ CtxUnsubscribeAll \/ CtxDisconnect \/ CtxKilled
               \/ CtxConnect \/ CtxSubscribe \/ CtxTypes \/ CtxSymbols
SpecOverlap == InitCtx /\ [][NextOverlap]_vars

\* Source changes in a row with the default reaction, every call of the transport
\* answered and none rejected: the transport answers each call it was given, and
\* a run continues once its awaited call has ended
InitRebuild ==
    /\ com = ComIdle /\ ns = NsIdle /\ reg = RegIdle /\ sym = SymIdle /\ sub = SubIdle
    /\ ctx = CtxCreated
SucceedingUnsubscribeAll == CtxUnsubscribeAll /\ TransportSucceeds(ctx')
SucceedingDisconnect == CtxDisconnect /\ TransportSucceeds(ctx')
SucceedingConnect == CtxConnect /\ TransportSucceeds(ctx')
SucceedingSubscribe == CtxSubscribe /\ TransportSucceeds(ctx')
SucceedingTypes == CtxTypes /\ TransportSucceeds(ctx')
SucceedingSymbols == CtxSymbols /\ TransportSucceeds(ctx')
NextRebuild == CtxPlcChanges \/ CtxReport \/ SucceedingUnsubscribeAll
               \/ SucceedingDisconnect \/ CtxKilled \/ SucceedingConnect
               \/ SucceedingSubscribe \/ SucceedingTypes \/ SucceedingSymbols
SpecRebuild ==
    /\ InitRebuild /\ [][NextRebuild]_vars
    /\ WF_vars(SucceedingUnsubscribeAll) /\ WF_vars(SucceedingDisconnect)
    /\ WF_vars(CtxKilled) /\ WF_vars(SucceedingConnect)
    /\ WF_vars(SucceedingSubscribe) /\ WF_vars(SucceedingTypes)
    /\ WF_vars(SucceedingSymbols)

\* The symbol registry built from raw symbols of every name
NextNames == SrCreate \/ SrDestroy
SpecNames == InitTypes /\ [][NextNames]_vars

\* Types created, cloned and extended, with the objects held by address
NextClone == HeapCreate \/ HeapClone \/ HeapExtend
SpecClone == InitTypes /\ [][NextClone]_vars

\* extend on a numeric type with raw descriptors of every shape
NextExtend == ExtCreate \/ ExtExtend
SpecExtend == InitTypes /\ [][NextExtend]_vars

\* Whole writes with the keys in any order, on structs, arrays and the namespace
InitOrder ==
    /\ com = ComIdle /\ ns = NsIdle /\ reg = RegIdle /\ sub = SubIdle /\ ctx = CtxIdle
    /\ \E type1 \in {"BOOL", "ST", "ARRAY OF BOOL"}, second \in BOOLEAN,
          startIndex \in {0, 1}, byte \in {0, 1} :
            sym = SymCreated(SymbolCatalogue(type1, <<>>, second, <<>>),
                             TypeMap(<<>>, <<>>, startIndex), byte, "")
NextOrder == SymGet \/ SymSetOrdered \/ SymClear
SpecOrder == InitOrder /\ [][NextOrder]_vars

\* Operations in flight on the symbols of a namespace while kill() runs
InitFlight ==
    /\ com = ComIdle /\ ns = NsIdle /\ reg = RegIdle /\ sub = SubIdle /\ ctx = CtxIdle
    /\ \E type1 \in {"BOOL", "ST"}, attributes1 \in {<<>>, ReadOnlyAttr}, byte \in {0, 1} :
            sym = SymCreated(SymbolCatalogue(type1, attributes1, FALSE, <<>>),
                             TypeMap(<<>>, <<>>, 0), byte, "")
NextFlight == FlStart \/ FlAnswered \/ FlConverted \/ FlConvertFailed \/ FlKill
              \/ FlDisconnected
SpecFlight == InitFlight /\ [][NextFlight]_vars

=============================================================================
